---- MODULE Spec2Model ----
(***************************************************************************)
(* Model of the representor VIF plug provider (vif-plug-representor):      *)
(* the port table with its three hmap indexes, the devlink / udev          *)
(* monitors that feed it, and vif_plug_representor_port_prepare.           *)
(*                                                                         *)
(* A port_node lives at an address of a bounded heap.  The three hmaps are *)
(* sequences of (node, hash) entries; hmap_insert puts a node at the head  *)
(* of its bucket, and HMAP_FOR_EACH_WITH_HASH visits the entries of equal  *)
(* hash from the head.  Reading through a pointer to a freed port_node     *)
(* yields whatever lives at that address now: the node that reuses the     *)
(* address, or an arbitrary value chosen by the step.                      *)
(***************************************************************************)
EXTENDS Integers, Sequences, FiniteSets, TLC

\* ---------------------------------------------------------------- bounds
MaxNodes == 2          \* size of the heap of port_node objects
MaxQueue == 1          \* messages pending on each monitor socket

\* ------------------------------------------------------------- constants
\* 0xffffffff; TLC integers are 32-bit signed, so the all-ones uint32_t is
\* written in its signed reading.  No uint32_t of the model reaches 2^31.
UINT32_MAX == -1
UINT16_MAX == 65535
NULL == 0

Addrs == 1..MaxNodes

PORT_NODE_SOURCE_DUMP == "DUMP"
PORT_NODE_SOURCE_RUNTIME == "RUNTIME"

DEVLINK_PORT_FLAVOUR_PHYSICAL == "PHYSICAL"
DEVLINK_PORT_FLAVOUR_PCI_PF == "PCI_PF"
DEVLINK_PORT_FLAVOUR_PCI_VF == "PCI_VF"
DEVLINK_PORT_FLAVOUR_PCI_SF == "PCI_SF"

DEVLINK_CMD_PORT_NEW == "PORT_NEW"
DEVLINK_CMD_PORT_DEL == "PORT_DEL"

\* ------------------------------------------------------- value domains
eth_addr_zero == <<0, 0, 0, 0, 0, 0>>
MacA == <<0, 83, 0, 0, 0, 66>>          \* 00:53:00:00:00:42
MacB == <<0, 83, 0, 0, 0, 81>>          \* 00:53:00:00:00:51
PfMacs == {MacA, MacB}

\* bus_name "/" dev_name, as hash_bus_dev formats it
Dev3 == "pci/0000:03:00.0"
Dev4 == "pci/0000:04:00.0"
Dev5 == "pci/0000:05:00.0"
IfIndexes == {10, 11}
NetdevNames == {"p0", "eth0"}
PfNumbers == {0}
VfNumbers == {0, 1}

\* ------------------------------------------------------------ hashing
\* hash_string() maps every bus/dev string to 32 bits, so distinct strings
\* may share a hash; Dev4 and Dev5 of the model do.
hash_bus_dev(bus_dev) ==
    CASE bus_dev = Dev3 -> 3
      [] bus_dev = Dev4 -> 7
      [] bus_dev = Dev5 -> 7
      [] OTHER -> 9

RECURSIVE SumSeq(_)
SumSeq(s) == IF s = <<>> THEN 0 ELSE Head(s) + SumSeq(Tail(s))

\* hash_mac(mac, vf_num, seed): a many-to-one function of the MAC bytes and
\* the VF number (the seed is fixed for the life of the table).
port_table_hash_mac_vf(mac, vf_num) == (SumSeq(mac) + vf_num) % 65536

\* ---------------------------------------------------------- port_node
FreeNode == [live |-> FALSE]

port_node_create(netdev_ifindex, netdev_name, number, flavour, mac, pf, port_node_source, bus_dev) ==
    [live |-> TRUE,
     netdev_ifindex |-> netdev_ifindex,
     netdev_name |-> netdev_name,
     netdev_renamed |-> FALSE,
     number |-> number,
     flavour |-> flavour,
     mac |-> mac,
     pf |-> pf,
     port_node_source |-> port_node_source,
     bus_dev |-> bus_dev]      \* ghost: the device the node was created for

port_node_update(pn, netdev_name) ==
    [pn EXCEPT !.netdev_name = netdev_name, !.netdev_renamed = TRUE]

port_node_rename_expected(pn) ==
    pn.port_node_source = PORT_NODE_SOURCE_RUNTIME
    /\ pn.netdev_renamed = FALSE

\* --------------------------------------------------------- port_table
\* A table value T has fields nodes (the heap), mac_vf, ifindex, bus_dev
\* (the three hmaps, each a sequence of [node, hash] entries, head first)
\* and nomem, set when xmalloc found no free address (the process aborts;
\* steps that would do so are outside the heap bound and are not taken).
port_table_create ==
    [nodes |-> [a \in Addrs |-> FreeNode],
     mac_vf |-> <<>>, ifindex |-> <<>>, bus_dev |-> <<>>, nomem |-> FALSE]

\* xmalloc(sizeof *pn).  The allocator may hand out any free address; the
\* only difference a free address makes is whether a stale pf pointer still
\* designates it, so the choice is between the lowest such address (reuse)
\* and the lowest other one.
xmalloc(T, reuse) ==
    LET free == {a \in DOMAIN T.nodes : ~T.nodes[a].live}
        stale == {a \in free :
                     \E b \in DOMAIN T.nodes :
                         T.nodes[b].live /\ T.nodes[b].pf = a}
        pick == IF reuse /\ stale # {} THEN stale
                ELSE IF free \ stale # {} THEN free \ stale ELSE free
    IN  IF free = {} THEN NULL
        ELSE CHOOSE a \in pick : \A b \in pick : a <= b

\* hmap_insert() puts the node at the head of its bucket, ahead of the nodes
\* of equal hash.  Nodes of different hash never meet in a lookup, so the
\* buckets are kept in hash order.
hmap_insert(hmap, node, hash) ==
    SelectSeq(hmap, LAMBDA e : e.hash < hash)
    \o <<[node |-> node, hash |-> hash]>>
    \o SelectSeq(hmap, LAMBDA e : e.hash >= hash)

hmap_remove(hmap, node) == SelectSeq(hmap, LAMBDA e : e.node # node)

HmapNodes(hmap) == {hmap[i].node : i \in 1..Len(hmap)}

\* The first entry of hmap, from the head, that has the hash and is one of
\* the matching nodes; NULL if there is none.
HmapFirst(hmap, hash, matching) ==
    LET idx == {i \in 1..Len(hmap) :
                   hmap[i].hash = hash /\ hmap[i].node \in matching}
    IN  IF idx = {} THEN NULL
        ELSE hmap[CHOOSE i \in idx : \A j \in idx : i <= j].node

\* pn->pf->mac.  freed maps each freed address to the bytes found there.
PfMacRead(T, pf, freed) ==
    IF T.nodes[pf].live THEN T.nodes[pf].mac ELSE freed[pf]

\* Freed addresses that some live node's pf still designates.
DanglingAddrs(T) ==
    {a \in DOMAIN T.nodes :
        /\ ~T.nodes[a].live
        /\ \E b \in DOMAIN T.nodes : T.nodes[b].live /\ T.nodes[b].pf = a}

port_table_lookup_ifindex(T, netdev_ifindex) ==
    HmapFirst(T.ifindex, netdev_ifindex,
              {a \in HmapNodes(T.ifindex) :
                  T.nodes[a].netdev_ifindex = netdev_ifindex})

port_table_lookup_pf_mac_vf(T, mac, vf_num, freed) ==
    HmapFirst(T.mac_vf, port_table_hash_mac_vf(mac, vf_num),
              {a \in HmapNodes(T.mac_vf) :
                  /\ T.nodes[a].number = vf_num
                  /\ T.nodes[a].pf # NULL
                  /\ PfMacRead(T, T.nodes[a].pf, freed) = mac})

port_table_lookup_phy_bus_dev_wrong_hash(T, bus_dev, flavour, number) ==
    HmapFirst(T.bus_dev, hash_bus_dev(bus_dev) + 1,
              {a \in HmapNodes(T.bus_dev) :
                  T.nodes[a].flavour = flavour /\ T.nodes[a].number = number})

port_table_lookup_phy_bus_dev(T, bus_dev, flavour, number) ==
    HmapFirst(T.bus_dev, hash_bus_dev(bus_dev),
              {a \in HmapNodes(T.bus_dev) :
                  T.nodes[a].flavour = flavour /\ T.nodes[a].number = number})

port_table_update_phy__(T, bus_dev, netdev_ifindex, netdev_name, number, flavour, mac, port_node_source, reuse) ==
    LET pn == port_table_lookup_phy_bus_dev(T, bus_dev, flavour, number)
        new == xmalloc(T, reuse)
    IN  IF pn = NULL
        THEN IF new = NULL THEN [T EXCEPT !.nomem = TRUE]
             ELSE [T EXCEPT
                     !.nodes[new] = port_node_create(
                          netdev_ifindex, netdev_name, number, flavour, mac,
                          NULL, port_node_source, bus_dev),
                     !.ifindex = hmap_insert(T.ifindex, new, netdev_ifindex),
                     !.bus_dev = hmap_insert(T.bus_dev, new,
                                             hash_bus_dev(bus_dev))]
        ELSE [T EXCEPT !.nodes[pn] = port_node_update(T.nodes[pn],
                                                      netdev_name)]

port_table_update_function__(T, pf, netdev_ifindex, netdev_name, number, flavour, mac, port_node_source, reuse, bus_dev) ==
    LET pn == port_table_lookup_ifindex(T, netdev_ifindex)
        new == xmalloc(T, reuse)
    IN  IF pn = NULL
        THEN IF new = NULL THEN [T EXCEPT !.nomem = TRUE]
             ELSE [T EXCEPT
                     !.nodes[new] = port_node_create(
                          netdev_ifindex, netdev_name, number, flavour, mac,
                          pf, port_node_source, bus_dev),
                     !.ifindex = hmap_insert(T.ifindex, new, netdev_ifindex),
                     !.mac_vf = hmap_insert(T.mac_vf, new,
                                    port_table_hash_mac_vf(T.nodes[pf].mac,
                                                           number))]
        ELSE [T EXCEPT !.nodes[pn] = port_node_update(T.nodes[pn],
                                                      netdev_name)]

\* Inserts or updates an entry in the table.
port_table_update_entry(T, bus_dev, netdev_ifindex, netdev_name, number, pci_pf_number, pci_vf_number, flavour, mac, port_node_source, reuse) ==
    IF flavour = DEVLINK_PORT_FLAVOUR_PHYSICAL
       \/ flavour = DEVLINK_PORT_FLAVOUR_PCI_PF
    THEN port_table_update_phy__(
             T, bus_dev, netdev_ifindex, netdev_name,
             IF flavour = DEVLINK_PORT_FLAVOUR_PHYSICAL
                THEN number ELSE pci_pf_number,
             flavour, mac, port_node_source, reuse)
    ELSE LET phy == port_table_lookup_phy_bus_dev(
                        T, bus_dev, DEVLINK_PORT_FLAVOUR_PCI_PF,
                        pci_pf_number)
         IN  IF phy = NULL THEN T
             ELSE port_table_update_function__(
                      T, phy, netdev_ifindex, netdev_name, pci_vf_number,
                      flavour, mac, port_node_source, reuse, bus_dev)

port_table_delete_phy__(T, bus_dev, number, flavour) ==
    LET phy == port_table_lookup_phy_bus_dev(T, bus_dev, flavour, number)
    IN  IF phy = NULL THEN T
        ELSE [T EXCEPT !.ifindex = hmap_remove(T.ifindex, phy),
                       !.bus_dev = hmap_remove(T.bus_dev, phy),
                       !.nodes[phy] = FreeNode]

port_table_delete_function__keeps_ifindex(T, pf, pci_vf_number, freed) ==
    LET pn == port_table_lookup_pf_mac_vf(T, T.nodes[pf].mac, pci_vf_number,
                                          freed)
    IN  IF pn = NULL THEN T
        ELSE [T EXCEPT !.mac_vf = hmap_remove(T.mac_vf, pn),
                       !.nodes[pn] = FreeNode]

port_table_delete_function__(T, pf, pci_vf_number, freed) ==
    LET pn == port_table_lookup_pf_mac_vf(T, T.nodes[pf].mac, pci_vf_number,
                                          freed)
    IN  IF pn = NULL THEN T
        ELSE [T EXCEPT !.ifindex = hmap_remove(T.ifindex, pn),
                       !.mac_vf = hmap_remove(T.mac_vf, pn),
                       !.nodes[pn] = FreeNode]

port_table_delete_entry(T, bus_dev, number, pci_pf_number, pci_vf_number, flavour, freed) ==
    IF flavour = DEVLINK_PORT_FLAVOUR_PHYSICAL
       \/ flavour = DEVLINK_PORT_FLAVOUR_PCI_PF
    THEN port_table_delete_phy__(
             T, bus_dev,
             IF flavour = DEVLINK_PORT_FLAVOUR_PHYSICAL
                THEN number ELSE pci_pf_number,
             flavour)
    ELSE LET phy == port_table_lookup_phy_bus_dev(
                        T, bus_dev, DEVLINK_PORT_FLAVOUR_PCI_PF,
                        pci_pf_number)
         IN  IF phy = NULL THEN T
             ELSE port_table_delete_function__(T, phy, pci_vf_number, freed)

\* The nodes port_table_destroy hands to port_node_destroy, in order: the
\* mac_vf table is popped first, then the bus_dev table; the ifindex table
\* is only released.
port_table_destroy(T) ==
    [i \in 1..Len(T.mac_vf) |-> T.mac_vf[i].node]
    \o [i \in 1..Len(T.bus_dev) |-> T.bus_dev[i].node]

\* ------------------------------------------------- devlink port records
\* A decoded struct dl_port.  Attributes a message does not carry are the
\* maximum of their width (integers), all-zero (MAC) or "" (strings).
VfMac == <<0, 83, 0, 0, 16, 0>>         \* 00:53:00:00:10:00
dl_str_not_present == ""

dl_port(bus_dev, netdev_ifindex, netdev_name, number, pci_pf_number, pci_vf_number, flavour, mac) ==
    [bus_dev |-> bus_dev, netdev_ifindex |-> netdev_ifindex,
     netdev_name |-> netdev_name, number |-> number,
     pci_pf_number |-> pci_pf_number, pci_vf_number |-> pci_vf_number,
     flavour |-> flavour, eth_addr |-> mac]

PhysicalPorts(devs, ifs, names) ==
    {dl_port(bd, i, n, 0, UINT16_MAX, UINT16_MAX,
             DEVLINK_PORT_FLAVOUR_PHYSICAL, eth_addr_zero) :
        bd \in devs, i \in ifs, n \in names}

PfPorts(devs, ifs, names, macs) ==
    UNION {{dl_port(bd, i, n, UINT32_MAX, pf, UINT16_MAX,
                    DEVLINK_PORT_FLAVOUR_PCI_PF, mac) :
               bd \in devs, i \in ifs, n \in names} :
           pf \in PfNumbers, mac \in macs}

VfPorts(devs, ifs, names, vfs) ==
    UNION {{dl_port(bd, i, n, UINT32_MAX, pf, vf,
                    DEVLINK_PORT_FLAVOUR_PCI_VF, VfMac) :
               bd \in devs, i \in ifs, n \in names} :
           pf \in PfNumbers, vf \in vfs}

SfPorts(devs, ifs, names) ==
    {dl_port(bd, i, n, UINT32_MAX, pf, UINT16_MAX,
             DEVLINK_PORT_FLAVOUR_PCI_SF, eth_addr_zero) :
        bd \in devs, i \in ifs, n \in names, pf \in PfNumbers}

\* PORT_NEW carries the netdev; the PORT_DEL carries neither ifindex nor
\* name.  NewPorts(devs, vfs) and GonePorts(devs, vfs) are the port records
\* of the devices devs with VF numbers vfs.
NewPorts(devs, vfs) ==
    PhysicalPorts(devs, IfIndexes, NetdevNames)
    \cup PfPorts(devs, IfIndexes, NetdevNames, PfMacs \cup {eth_addr_zero})
    \cup VfPorts(devs, IfIndexes, NetdevNames, vfs)
    \cup SfPorts(devs, {10}, {"eth0"})

GonePorts(devs, vfs) ==
    PhysicalPorts(devs, {UINT32_MAX}, {dl_str_not_present})
    \cup PfPorts(devs, {UINT32_MAX}, {dl_str_not_present}, {eth_addr_zero})
    \cup VfPorts(devs, {UINT32_MAX}, {dl_str_not_present}, vfs)
    \cup SfPorts(devs, {UINT32_MAX}, {dl_str_not_present})

\* ------------------------------------------------ sysfs compat reader
\* compat_get_host_pf_mac(netdev_name, &ea) under a given content of
\* /sys/class/net/<name>/smart_nic/pf/config: sysfs maps a netdev name to
\* the MAC of its "MAC: " line, or to <<>> when the file or line is absent.
SysfsStates ==
    {[n \in NetdevNames \cup {dl_str_not_present} |-> <<>>],
     [n \in NetdevNames \cup {dl_str_not_present} |->
         IF n = "p0" THEN MacB ELSE <<>>]}

compat_get_host_pf_mac(sysfs, netdev_name) ==
    IF sysfs[netdev_name] = <<>>
    THEN [ok |-> FALSE, ea |-> eth_addr_zero]
    ELSE [ok |-> TRUE, ea |-> sysfs[netdev_name]]

eth_addr_is_zero(ea) == ea = eth_addr_zero

port_table_update_devlink_port(T, port_entry, port_node_source, sysfs, reuse) ==
    IF port_entry.flavour # DEVLINK_PORT_FLAVOUR_PHYSICAL
       /\ port_entry.flavour # DEVLINK_PORT_FLAVOUR_PCI_PF
       /\ port_entry.flavour # DEVLINK_PORT_FLAVOUR_PCI_VF
    THEN T
    ELSE
    LET need == port_entry.flavour = DEVLINK_PORT_FLAVOUR_PCI_PF
                /\ eth_addr_is_zero(port_entry.eth_addr)
        phy == port_table_lookup_phy_bus_dev(
                   T, port_entry.bus_dev, DEVLINK_PORT_FLAVOUR_PHYSICAL,
                   port_entry.pci_pf_number)
        fallback == compat_get_host_pf_mac(sysfs, T.nodes[phy].netdev_name)
    IN  IF need /\ phy = NULL THEN T
        ELSE IF need /\ ~fallback.ok THEN T
        ELSE port_table_update_entry(
                 T, port_entry.bus_dev, port_entry.netdev_ifindex,
                 port_entry.netdev_name, port_entry.number,
                 port_entry.pci_pf_number, port_entry.pci_vf_number,
                 port_entry.flavour,
                 IF need THEN fallback.ea ELSE port_entry.eth_addr,
                 port_node_source, reuse)

port_table_delete_devlink_port(T, port_entry, freed) ==
    port_table_delete_entry(T, port_entry.bus_dev, port_entry.number,
                            port_entry.pci_pf_number,
                            port_entry.pci_vf_number, port_entry.flavour,
                            freed)

\* ------------------------------------------------------------ strings
\* A C string is the sequence of its characters.
DecChars == {"0", "1", "2", "3", "4", "5", "6", "7", "8", "9"}

HexChar == <<"0", "1", "2", "3", "4", "5", "6", "7", "8", "9",
             "a", "b", "c", "d", "e", "f">>

HexChars == {HexChar[i] : i \in 1..16}

DigitValues == [c \in HexChars |-> (CHOOSE i \in 1..16 : HexChar[i] = c) - 1]

DigitValue(c) == DigitValues[c]

\* Length of the longest run of characters of set in s from position i.
RECURSIVE Span(_, _, _)
Span(s, i, set) ==
    IF i <= Len(s) /\ s[i] \in set THEN 1 + Span(s, i + 1, set) ELSE 0

\* Value of the n digits of s from position i, in the base.
RECURSIVE NumValue(_, _, _, _)
NumValue(s, i, n, base) ==
    IF n = 0 THEN 0
    ELSE NumValue(s, i, n - 1, base) * base + DigitValue(s[i + n - 1])

\* strtol(s, &cp, 10): value is the result, cp the offset of the end pointer
\* from s (0 when no conversion was performed).
strtol(s) ==
    LET p == 1 + Span(s, 1, {" "})
        signed == p <= Len(s) /\ s[p] \in {"+", "-"}
        d == IF signed THEN p + 1 ELSE p
        n == Span(s, d, DecChars)
    IN  IF n = 0 THEN [value |-> 0, cp |-> 0]
        ELSE [value |-> IF signed /\ s[p] = "-"
                        THEN 0 - NumValue(s, d, n, 10)
                        ELSE NumValue(s, d, n, 10),
              cp |-> d + n - 1]

\* Conversion of a long to uint16_t.
uint16(v) == ((v % 65536) + 65536) % 65536

\* The xx:xx:xx:xx:xx:xx form of a MAC (ETH_ADDR_FMT).
RECURSIVE eth_addr_format(_)
eth_addr_format(ea) ==
    IF ea = <<>> THEN <<>>
    ELSE <<HexChar[(Head(ea) \div 16) + 1], HexChar[(Head(ea) % 16) + 1]>>
         \o (IF Len(ea) = 1 THEN <<>> ELSE <<":">>)
         \o eth_addr_format(Tail(ea))

\* eth_addr_from_string(s, &ea): six groups of hex digits separated by ":"
\* and nothing after them.  <<>> when the string does not parse.
RECURSIVE ScanOctets(_, _, _)
ScanOctets(s, i, k) ==
    LET n == Span(s, i, HexChars)
        octet == NumValue(s, i, n, 16) % 256
        rest == ScanOctets(s, i + n + 1, k - 1)
    IN  IF n = 0 THEN <<>>
        ELSE IF k = 1 THEN IF i + n = Len(s) + 1 THEN <<octet>> ELSE <<>>
        ELSE IF i + n > Len(s) \/ s[i + n] # ":" THEN <<>>
        ELSE IF rest = <<>> THEN <<>>
        ELSE <<octet>> \o rest

\* The strings the model passes as pf-mac are scanned once.
MacStrings == {eth_addr_format(ea) : ea \in PfMacs \cup {eth_addr_zero}}

ScannedMacs == [s \in MacStrings |-> ScanOctets(s, 1, 6)]

eth_addr_from_string(s) ==
    IF s \in MacStrings THEN ScannedMacs[s] ELSE ScanOctets(s, 1, 6)

\* The decimal form of a natural number.
RECURSIVE decimal(_)
decimal(v) ==
    IF v < 10 THEN <<HexChar[v + 1]>>
    ELSE decimal(v \div 10) \o <<HexChar[(v % 10) + 1]>>

\* ------------------------------------------------------------ monitors
\* A message on the devlink monitor socket is [cmd, port]: the genl command
\* and the decoded port.  nl_sock_recv returns the messages in arrival order
\* and EAGAIN once the socket is empty.  changed is set by every PORT_NEW
\* that carries an ifindex, and by nothing else.
\* A PORT_NEW that lacks netdev_ifindex.
NoIfindex(msg) == /\ msg.cmd = DEVLINK_CMD_PORT_NEW
                  /\ msg.port.netdev_ifindex = UINT32_MAX

RECURSIVE devlink_monitor_run_no_ifindex_test(_, _, _, _, _)
devlink_monitor_run_no_ifindex_test(T, sock, sysfs, reuse, freed) ==
    IF sock = <<>> THEN [T |-> T, changed |-> FALSE]
    ELSE
    LET msg == Head(sock)
        new == msg.cmd = DEVLINK_CMD_PORT_NEW
        T1 == IF new
              THEN port_table_update_devlink_port(
                       T, msg.port, PORT_NODE_SOURCE_RUNTIME, sysfs, reuse)
              ELSE IF msg.cmd = DEVLINK_CMD_PORT_DEL
              THEN port_table_delete_devlink_port(T, msg.port, freed)
              ELSE T
        rest == devlink_monitor_run_no_ifindex_test(T1, Tail(sock), sysfs,
                                                    reuse, freed)
    IN  [T |-> rest.T, changed |-> new \/ rest.changed]

RECURSIVE devlink_monitor_run(_, _, _, _, _)
devlink_monitor_run(T, sock, sysfs, reuse, freed) ==
    IF sock = <<>> THEN [T |-> T, changed |-> FALSE]
    ELSE
    LET msg == Head(sock)
        new == msg.cmd = DEVLINK_CMD_PORT_NEW
               /\ msg.port.netdev_ifindex # UINT32_MAX
        T1 == IF new
              THEN port_table_update_devlink_port(
                       T, msg.port, PORT_NODE_SOURCE_RUNTIME, sysfs, reuse)
              ELSE IF msg.cmd = DEVLINK_CMD_PORT_DEL
              THEN port_table_delete_devlink_port(T, msg.port, freed)
              ELSE T
        rest == devlink_monitor_run(T1, Tail(sock), sysfs, reuse, freed)
    IN  [T |-> rest.T, changed |-> new \/ rest.changed]

\* A uevent is [action, ifindex_str, sysname]; NoAttr and NoName stand for
\* an attribute udev does not have (a NULL string).
NoAttr == <<"(null)">>
NoName == "(null)"

RECURSIVE udev_monitor_run_any_action(_, _)
udev_monitor_run_any_action(T, mon) ==
    IF mon = <<>> THEN [T |-> T, changed |-> FALSE]
    ELSE
    LET dev == Head(mon)
        conv == strtol(dev.ifindex_str)
        malformed == conv.cp # 0 /\ conv.cp < Len(dev.ifindex_str)
        pn == port_table_lookup_ifindex(T, conv.value)
        hit == /\ dev.ifindex_str # NoAttr
               /\ dev.sysname # NoName
               /\ ~malformed
               /\ pn # NULL
        T1 == IF hit
              THEN [T EXCEPT !.nodes[pn] = port_node_update(@, dev.sysname)]
              ELSE T
        rest == udev_monitor_run_any_action(T1, Tail(mon))
    IN  [T |-> rest.T, changed |-> hit \/ rest.changed]

RECURSIVE udev_monitor_run(_, _)
udev_monitor_run(T, mon) ==
    IF mon = <<>> THEN [T |-> T, changed |-> FALSE]
    ELSE
    LET dev == Head(mon)
        conv == strtol(dev.ifindex_str)
        malformed == conv.cp # 0 /\ conv.cp < Len(dev.ifindex_str)
        pn == port_table_lookup_ifindex(T, conv.value)
        hit == /\ dev.action = "move"
               /\ dev.ifindex_str # NoAttr
               /\ dev.sysname # NoName
               /\ ~malformed
               /\ pn # NULL
        T1 == IF hit
              THEN [T EXCEPT !.nodes[pn] = port_node_update(@, dev.sysname)]
              ELSE T
        rest == udev_monitor_run(T1, Tail(mon))
    IN  [T |-> rest.T, changed |-> hit \/ rest.changed]

\* ------------------------------------------------------------- facade
\* return devlink_monitor_run() & udev_monitor_run();
bitwise_and(d_changed, u) == [T |-> u.T, changed |-> d_changed /\ u.changed]

udev_after_devlink(d, mon) == bitwise_and(d.changed, udev_monitor_run(d.T, mon))

vif_plug_representor_run(T, sock, mon, sysfs, reuse, freed) ==
    udev_after_devlink(devlink_monitor_run(T, sock, sysfs, reuse, freed), mon)

\* The operands of & are two function calls, and C leaves the order in which
\* they are made to the compiler: the build may as well drain the uevents
\* first.
devlink_after_udev(u, sock, sysfs, reuse, freed) ==
    bitwise_and(u.changed, devlink_monitor_run(u.T, sock, sysfs, reuse, freed))

vif_plug_representor_run_udev_first(T, sock, mon, sysfs, reuse, freed) ==
    devlink_after_udev(udev_monitor_run(T, mon), sock, sysfs, reuse, freed)

OperandOrders == {"devlink first", "udev first"}

vif_plug_representor_run_in_order(order, T, sock, mon, sysfs, reuse, freed) ==
    IF order = "devlink first"
    THEN vif_plug_representor_run(T, sock, mon, sysfs, reuse, freed)
    ELSE vif_plug_representor_run_udev_first(T, sock, mon, sysfs, reuse,
                                             freed)

PLUG_OP_CREATE == "PLUG_OP_CREATE"
PLUG_OP_REMOVE == "PLUG_OP_REMOVE"

\* lport_options is [pf_mac, vf_num]: the values of
\* vif-plug:representor:pf-mac and vif-plug:representor:vf-num, NoAttr for
\* a key the smap does not hold.  The result tells what the call returned,
\* the table it left, whether it drained the sockets and whether (and what)
\* it wrote to ctx_out->name.
PrepareResult(value, T, drained, written, name) ==
    [value |-> value, T |-> T, drained |-> drained,
     written |-> written, name |-> name]

\* The end of prepare: pn is what the lookup returned.
prepare_return(T, pn) ==
    IF pn = NULL
    THEN PrepareResult(FALSE, T, TRUE, FALSE, "")
    ELSE PrepareResult(TRUE, T, TRUE, TRUE, T.nodes[pn].netdev_name)

\* prepare from the parse of the options on, on the table the drain left.
prepare_lookup(T, opt_pf_mac, opt_vf_num, pf_mac, freed) ==
    IF pf_mac = <<>>
    THEN PrepareResult(FALSE, T, TRUE, FALSE, "")
    ELSE prepare_return(
             T, port_table_lookup_pf_mac_vf(
                    T, pf_mac, uint16(strtol(opt_vf_num).value), freed))

vif_plug_representor_port_prepare_add_run_first(T, sock, mon, op_type, lport_options, sysfs, reuse, freed) ==
    IF lport_options.pf_mac = NoAttr \/ lport_options.vf_num = NoAttr
    THEN PrepareResult(
             FALSE,
             vif_plug_representor_run(T, sock, mon, sysfs, reuse, freed).T,
             TRUE, FALSE, "")
    ELSE prepare_lookup(
             vif_plug_representor_run(T, sock, mon, sysfs, reuse, freed).T,
             lport_options.pf_mac, lport_options.vf_num,
             eth_addr_from_string(lport_options.pf_mac), freed)

\* The part of prepare after the op_type test.
vif_plug_representor_port_prepare_add(T, sock, mon, op_type, lport_options, sysfs, reuse, freed) ==
    IF lport_options.pf_mac = NoAttr \/ lport_options.vf_num = NoAttr
    THEN PrepareResult(FALSE, T, FALSE, FALSE, "")
    ELSE prepare_lookup(
             vif_plug_representor_run(T, sock, mon, sysfs, reuse, freed).T,
             lport_options.pf_mac, lport_options.vf_num,
             eth_addr_from_string(lport_options.pf_mac), freed)

vif_plug_representor_port_prepare_no_remove_check(T, sock, mon, op_type, lport_options, sysfs, reuse, freed) ==
    vif_plug_representor_port_prepare_add(
        T, sock, mon, op_type, lport_options, sysfs, reuse, freed)

vif_plug_representor_port_prepare(T, sock, mon, op_type, lport_options, sysfs, reuse, freed) ==
    IF op_type = PLUG_OP_REMOVE
    THEN PrepareResult(TRUE, T, FALSE, FALSE, "")
    ELSE vif_plug_representor_port_prepare_add(
             T, sock, mon, op_type, lport_options, sysfs, reuse, freed)

\* ------------------------------------------------------------- state
VARIABLES
    port_table,            \* the process-wide struct port_table
    devlink_monitor_sock,  \* messages pending on the devlink socket
    udev_monitor,          \* uevents pending on the udev monitor socket
    ret,                   \* what the last facade call returned
    ctx_out,               \* the caller's struct vif_plug_port_ctx_out
    pc,                    \* the program point the provider is at
    in_call,               \* the facade call in progress
    changed,               \* the locals "changed" of the two monitor loops
    sk_err,                \* the error pending on the devlink socket
    udev,                  \* what udev_monitor_init left of udev objects
    error,                 \* what vif_plug_representor_init returned
    dump_status,           \* the status the bulk dump ended with
    kernel,                \* the ports the kernel has
    n_events               \* how many port events the kernel produced

life_vars == <<pc, in_call, changed, sk_err, udev, error, dump_status, kernel,
               n_events>>

vars == <<port_table, devlink_monitor_sock, udev_monitor, ret, ctx_out,
          life_vars>>

\* A freed node may hold any bytes; only the addresses in D are ever read.
\* The bytes are only ever compared with the MAC of a lookup, so they are one
\* of the MACs a lookup can ask for.
FreedReads(D) ==
    {f \in [Addrs -> PfMacs] : \A a \in Addrs \ D : f[a] = MacB}

\* The environment's choices that a step can observe: the sysfs file is read
\* only for a PF without function MAC, and the allocator can reuse an
\* address a stale pf designates only if there is one.
SysfsChoices(port_entry) ==
    IF port_entry.flavour = DEVLINK_PORT_FLAVOUR_PCI_PF
       /\ eth_addr_is_zero(port_entry.eth_addr)
    THEN SysfsStates
    ELSE {[n \in NetdevNames \cup {dl_str_not_present} |-> <<>>]}

\* ret holds the facade call made by the last step, with the options it was
\* given and what it returned (op = "none" when the last step was no call).
NoOptions == [pf_mac |-> NoAttr, vf_num |-> NoAttr]

NoCall == [op |-> "none", op_type |-> "", lport_options |-> NoOptions, value |-> FALSE]

ReuseChoices(T) == IF DanglingAddrs(T) = {} THEN {FALSE} ELSE BOOLEAN

NoChange == [devlink |-> FALSE, udev |-> FALSE]

\* The provider after an initialisation in which every step succeeded, on a
\* system without ports, between two calls of the facade.
Init ==
    /\ port_table = port_table_create
    /\ devlink_monitor_sock = <<>>
    /\ udev_monitor = <<>>
    /\ ret = NoCall
    /\ ctx_out = [written |-> FALSE, name |-> ""]
    /\ pc = "idle"
    /\ in_call = NoCall
    /\ changed = NoChange
    /\ sk_err = 0
    /\ udev = "receiving"
    /\ error = 0
    /\ dump_status = 0
    /\ kernel = {}
    /\ n_events = 0

\* ------------------------------------------- table-level operations
\* The table entry points, called as the unit tests call them.
UpdateDevlinkPort(port_entry) ==
    \E sysfs \in SysfsChoices(port_entry),
       reuse \in ReuseChoices(port_table) :
        LET T == port_table_update_devlink_port(
                     port_table, port_entry, PORT_NODE_SOURCE_RUNTIME,
                     sysfs, reuse)
        IN  /\ ~T.nomem
            /\ port_table' = T
            /\ UNCHANGED <<devlink_monitor_sock, udev_monitor, ret, ctx_out,
                           life_vars>>

DeleteDevlinkPort(port_entry) ==
    \E freed \in FreedReads(DanglingAddrs(port_table)) :
        /\ port_table' = port_table_delete_devlink_port(port_table,
                                                        port_entry, freed)
        /\ UNCHANGED <<devlink_monitor_sock, udev_monitor, ret, ctx_out,
                       life_vars>>

\* The body of the udev loop for one well-formed "move" event.
UdevMove(ifindex, sysname) ==
    LET pn == port_table_lookup_ifindex(port_table, ifindex)
    IN  /\ pn # NULL
        /\ port_table' = [port_table EXCEPT
                             !.nodes[pn] = port_node_update(@, sysname)]
        /\ UNCHANGED <<devlink_monitor_sock, udev_monitor, ret, ctx_out,
                       life_vars>>

\* Ports of one device with its Physical port, PF and VF 0.
TableDevs == {Dev3}
TableVfs == {0}

NextTable ==
    \/ \E m \in NewPorts(TableDevs, TableVfs) : UpdateDevlinkPort(m)
    \/ \E m \in GonePorts(TableDevs, TableVfs) : DeleteDevlinkPort(m)
    \/ \E i \in IfIndexes, n \in NetdevNames : UdevMove(i, n)

SpecTable == Init /\ [][NextTable]_vars

\* Physical and PF ports of three devices, two of which share a bus/dev hash.
PhyDevs == {Dev3, Dev4, Dev5}

IsPhy(m) == /\ m.flavour \in {DEVLINK_PORT_FLAVOUR_PHYSICAL,
                             DEVLINK_PORT_FLAVOUR_PCI_PF}
            /\ m.eth_addr \in {eth_addr_zero, MacA}
            /\ (m.eth_addr = eth_addr_zero) =
                  (m.flavour = DEVLINK_PORT_FLAVOUR_PHYSICAL
                   \/ m.netdev_ifindex = UINT32_MAX)

NextPhy ==
    \/ \E m \in {x \in NewPorts(PhyDevs, {}) : IsPhy(x)} :
           UpdateDevlinkPort(m)
    \/ \E m \in {x \in GonePorts(PhyDevs, {}) : IsPhy(x)} :
           DeleteDevlinkPort(m)
    \/ \E i \in IfIndexes, n \in NetdevNames : UdevMove(i, n)

SpecPhy == Init /\ [][NextPhy]_vars

\* --------------------------------------------------- the provider
\* The kernel delivers a devlink message or a uevent; the controller calls
\* run() and prepare().  ret holds the facade call made by the last step and
\* what it returned (op = "none" when the last step was a delivery).
Pending == Len(devlink_monitor_sock) + Len(udev_monitor)

DevlinkRecv(msg) ==
    /\ Pending < MaxQueue
    /\ devlink_monitor_sock' = Append(devlink_monitor_sock, msg)
    /\ ret' = NoCall
    /\ UNCHANGED <<port_table, udev_monitor, ctx_out,
                   life_vars>>

UdevRecv(dev) ==
    /\ Pending < MaxQueue
    /\ udev_monitor' = Append(udev_monitor, dev)
    /\ ret' = NoCall
    /\ UNCHANGED <<port_table, devlink_monitor_sock, ctx_out,
                   life_vars>>

\* What the environment can show a drain of the pending messages followed
\* by a lookup: the sysfs file is read only for a PF without function MAC;
\* freed nodes are read where a pf is stale now or a pending PORT_DEL of a PF
\* may leave one stale.
PendingPorts(flavour, cmd) ==
    {i \in 1..Len(devlink_monitor_sock) :
        /\ devlink_monitor_sock[i].cmd = cmd
        /\ devlink_monitor_sock[i].port.flavour = flavour}

DrainSysfs ==
    IF \E i \in PendingPorts(DEVLINK_PORT_FLAVOUR_PCI_PF,
                              DEVLINK_CMD_PORT_NEW) :
          eth_addr_is_zero(devlink_monitor_sock[i].port.eth_addr)
    THEN SysfsStates
    ELSE {[n \in NetdevNames \cup {dl_str_not_present} |-> <<>>]}

DrainReads ==
    DanglingAddrs(port_table)
    \cup (IF PendingPorts(DEVLINK_PORT_FLAVOUR_PCI_PF,
                          DEVLINK_CMD_PORT_DEL) = {}
          THEN {}
          ELSE {a \in Addrs :
                   /\ port_table.nodes[a].live
                   /\ port_table.nodes[a].flavour
                          = DEVLINK_PORT_FLAVOUR_PCI_PF}
               \cup (IF PendingPorts(DEVLINK_PORT_FLAVOUR_PCI_PF,
                                     DEVLINK_CMD_PORT_NEW) = {}
                     THEN {}
                     ELSE {a \in Addrs : ~port_table.nodes[a].live}))

\* The state a call of run leaves when it returns r.
RunReturns(r) ==
    /\ ~r.T.nomem
    /\ port_table' = r.T
    /\ devlink_monitor_sock' = <<>>
    /\ udev_monitor' = <<>>
    /\ ret' = [op |-> "run", op_type |-> "", lport_options |-> NoOptions,
               value |-> r.changed]
    /\ UNCHANGED <<ctx_out, life_vars>>

Run ==
    \E sysfs \in DrainSysfs,
       reuse \in IF Pending = 0 THEN {FALSE} ELSE ReuseChoices(port_table),
       freed \in FreedReads(DrainReads),
       order \in IF devlink_monitor_sock = <<>> \/ udev_monitor = <<>>
                 THEN {"devlink first"} ELSE OperandOrders :
        RunReturns(vif_plug_representor_run_in_order(
                       order, port_table, devlink_monitor_sock, udev_monitor,
                       sysfs, reuse, freed))

\* The state a call of prepare leaves when it returns r.
PrepareReturns(op_type, lport_options, r) ==
    /\ ~r.T.nomem
    /\ port_table' = r.T
    /\ devlink_monitor_sock' =
           IF r.drained THEN <<>> ELSE devlink_monitor_sock
    /\ udev_monitor' = IF r.drained THEN <<>> ELSE udev_monitor
    /\ ret' = [op |-> "prepare", op_type |-> op_type,
               lport_options |-> lport_options, value |-> r.value]
    /\ ctx_out' = IF r.written
                  THEN [written |-> TRUE, name |-> r.name]
                  ELSE ctx_out
    /\ UNCHANGED life_vars

\* A call that returns ahead of the drain observes nothing of the
\* environment.
Prepare(op_type, lport_options) ==
    \E sysfs \in DrainSysfs,
       reuse \in IF Pending = 0 THEN {FALSE} ELSE ReuseChoices(port_table),
       freed \in FreedReads(DrainReads) :
        PrepareReturns(op_type, lport_options,
                       vif_plug_representor_port_prepare(
                           port_table, devlink_monitor_sock, udev_monitor,
                           op_type, lport_options, sysfs, reuse, freed))

\* One PF with one VF, hot-added, renamed and removed at run time.
ProviderPf == dl_port(Dev3, 10, "p0", UINT32_MAX, 0, UINT16_MAX,
                      DEVLINK_PORT_FLAVOUR_PCI_PF, MacA)
ProviderVf(netdev_ifindex, netdev_name) ==
    dl_port(Dev3, netdev_ifindex, netdev_name, UINT32_MAX, 0, 0,
            DEVLINK_PORT_FLAVOUR_PCI_VF, VfMac)

DevlinkMsg(cmd, port) == [cmd |-> cmd, port |-> port]

ProviderMsgs ==
    {DevlinkMsg(DEVLINK_CMD_PORT_NEW, ProviderPf),
     DevlinkMsg(DEVLINK_CMD_PORT_NEW, ProviderVf(11, "p0")),
     DevlinkMsg(DEVLINK_CMD_PORT_NEW, ProviderVf(11, "eth0")),
     DevlinkMsg(DEVLINK_CMD_PORT_NEW,
                ProviderVf(UINT32_MAX, dl_str_not_present)),
     DevlinkMsg(DEVLINK_CMD_PORT_DEL,
                ProviderVf(UINT32_MAX, dl_str_not_present)),
     DevlinkMsg(DEVLINK_CMD_PORT_DEL,
                [ProviderPf EXCEPT !.netdev_ifindex = UINT32_MAX,
                                   !.netdev_name = dl_str_not_present])}

ProviderUevents ==
    {[action |-> "move", ifindex_str |-> decimal(11), sysname |-> "eth0"],
     [action |-> "move", ifindex_str |-> decimal(11), sysname |-> "p0"],
     [action |-> "add", ifindex_str |-> decimal(11), sysname |-> "eth0"]}

LportOptions ==
    {[pf_mac |-> NoAttr, vf_num |-> NoAttr],
     [pf_mac |-> eth_addr_format(MacA), vf_num |-> NoAttr],
     [pf_mac |-> eth_addr_format(MacA), vf_num |-> decimal(0)],
     [pf_mac |-> eth_addr_format(MacA), vf_num |-> decimal(1)]}

PrepareCalls ==
    {<<PLUG_OP_CREATE, o>> : o \in LportOptions}
    \cup {<<PLUG_OP_REMOVE, o>> : o \in {x \in LportOptions :
                                            (x.pf_mac = NoAttr)
                                            = (x.vf_num = NoAttr)}}

Next ==
    \/ \E msg \in ProviderMsgs : DevlinkRecv(msg)
    \/ \E dev \in ProviderUevents : UdevRecv(dev)
    \/ Run
    \/ \E call \in PrepareCalls : Prepare(call[1], call[2])

Spec == Init /\ [][Next]_vars

\* ================================================================ claims
Nodes == port_table.nodes

Live(T) == {a \in DOMAIN T.nodes : T.nodes[a].live}

IsPhyNode(n) == n.flavour \in {DEVLINK_PORT_FLAVOUR_PHYSICAL,
                               DEVLINK_PORT_FLAVOUR_PCI_PF}

NoSysfs == [n \in NetdevNames \cup {dl_str_not_present} |-> <<>>]

\* C1 (VF rooting): the pf of every live PciVf record designates a PciPf
\* record that is in the table and was created for the same bus/dev.
C1_VfRooting ==
    \A a \in Live(port_table) :
        Nodes[a].flavour = DEVLINK_PORT_FLAVOUR_PCI_VF =>
            /\ Nodes[a].pf # NULL
            /\ Nodes[a].pf \in HmapNodes(port_table.bus_dev)
            /\ Nodes[Nodes[a].pf].live
            /\ Nodes[Nodes[a].pf].flavour = DEVLINK_PORT_FLAVOUR_PCI_PF
            /\ Nodes[Nodes[a].pf].bus_dev = Nodes[a].bus_dev

\* C2 (ifindex uniqueness): no two live records have the same
\* netdev_ifindex.
C2_IfindexUnique ==
    \A a, b \in Live(port_table) :
        Nodes[a].netdev_ifindex = Nodes[b].netdev_ifindex => a = b

\* C3 (Physical/PF key uniqueness): no two live Physical or PciPf records
\* share (bus, dev, flavour, key).
C3_PhyKeyUnique ==
    \A a, b \in Live(port_table) :
        (/\ IsPhyNode(Nodes[a]) /\ IsPhyNode(Nodes[b])
         /\ Nodes[a].bus_dev = Nodes[b].bus_dev
         /\ Nodes[a].flavour = Nodes[b].flavour
         /\ Nodes[a].number = Nodes[b].number) => a = b

\* Two records of one device are in the table, one of them found again and
\* updated by a later PORT_NEW or move, next to a record of a device whose
\* bus/dev hash is the same as another's.
C3_Witness ==
    /\ \E a, b \in Live(port_table) :
          /\ a # b
          /\ IsPhyNode(Nodes[a]) /\ IsPhyNode(Nodes[b])
          /\ Nodes[a].bus_dev = Nodes[b].bus_dev
          /\ Nodes[a].netdev_renamed
    /\ \E a \in Live(port_table) : Nodes[a].bus_dev \in {Dev4, Dev5}

NoRepeat(hmap) ==
    \A i, j \in 1..Len(hmap) : hmap[i].node = hmap[j].node => i = j

\* C4 (index coherence): the ifindex index holds exactly the live records,
\* each once; it is the disjoint union of the bus/dev index (all and only
\* the Physical and PciPf records) and the MAC+VF index (all and only the
\* PciVf records); hence port_table_destroy destroys every record exactly
\* once.
C4_IndexCoherence ==
    LET T == port_table
        destroyed == port_table_destroy(T)
    IN  /\ NoRepeat(T.ifindex) /\ NoRepeat(T.bus_dev) /\ NoRepeat(T.mac_vf)
        /\ HmapNodes(T.ifindex) = Live(T)
        /\ HmapNodes(T.bus_dev) = {a \in Live(T) : IsPhyNode(Nodes[a])}
        /\ HmapNodes(T.mac_vf) =
              {a \in Live(T) :
                  Nodes[a].flavour = DEVLINK_PORT_FLAVOUR_PCI_VF}
        /\ HmapNodes(T.bus_dev) \cap HmapNodes(T.mac_vf) = {}
        /\ HmapNodes(T.ifindex)
              = HmapNodes(T.bus_dev) \cup HmapNodes(T.mac_vf)
        /\ \A a \in Live(T) :
              Cardinality({i \in 1..Len(destroyed) : destroyed[i] = a}) = 1
        /\ \A i \in 1..Len(destroyed) : destroyed[i] \in Live(T)

\* A VF record and a PF record are indexed, the VF at an address below the
\* PF's: a delete has freed that address after the PF was created.
C4_Witness ==
    \E v, p \in Live(port_table) :
        /\ Nodes[v].flavour = DEVLINK_PORT_FLAVOUR_PCI_VF
        /\ Nodes[p].flavour = DEVLINK_PORT_FLAVOUR_PCI_PF
        /\ v < p
        /\ v \in HmapNodes(port_table.mac_vf)
        /\ p \in HmapNodes(port_table.bus_dev)

\* C5 (idempotent apply): applying a PORT_NEW to the table a first
\* application of it has left gives that table again, in every record field
\* and every index.
C5_IdempotentApply ==
    \A m \in NewPorts(TableDevs, TableVfs), sysfs \in SysfsStates,
       reuse \in BOOLEAN :
        LET once == port_table_update_devlink_port(
                        port_table, m, PORT_NODE_SOURCE_RUNTIME, sysfs, reuse)
            twice == port_table_update_devlink_port(
                         once, m, PORT_NODE_SOURCE_RUNTIME, sysfs, reuse)
        IN  ~once.nomem => twice = once

\* The key of a Physical or PciPf port record.
PhyKey(m) == IF m.flavour = DEVLINK_PORT_FLAVOUR_PHYSICAL
             THEN m.number ELSE m.pci_pf_number

\* The port of a PORT_DEL has no record in T: no Physical/PciPf record of its
\* (bus, dev, flavour, key); for a PciVf, no PF record of its (bus, dev,
\* pci_pf_number), or no VF record of that PF with its VF number.
Absent(T, m) ==
    IF IsPhyNode(m)
    THEN ~\E a \in Live(T) :
             /\ T.nodes[a].flavour = m.flavour
             /\ T.nodes[a].bus_dev = m.bus_dev
             /\ T.nodes[a].number = PhyKey(m)
    ELSE LET pfs == {a \in Live(T) :
                       /\ T.nodes[a].flavour = DEVLINK_PORT_FLAVOUR_PCI_PF
                       /\ T.nodes[a].bus_dev = m.bus_dev
                       /\ T.nodes[a].number = m.pci_pf_number}
         IN  ~\E v \in Live(T) :
                 /\ T.nodes[v].flavour = DEVLINK_PORT_FLAVOUR_PCI_VF
                 /\ T.nodes[v].pf \in pfs
                 /\ T.nodes[v].number = m.pci_vf_number

\* C6 (delete of absent is a no-op): delete_entry for a port that has no
\* record leaves the three indexes and every record unchanged.
C6_DeleteAbsentNoop ==
    \A m \in {x \in GonePorts(PhyDevs, TableVfs) :
                 x.flavour # DEVLINK_PORT_FLAVOUR_PCI_SF},
       freed \in FreedReads(DanglingAddrs(port_table)) :
        Absent(port_table, m) =>
            port_table_delete_devlink_port(port_table, m, freed) = port_table

\* The update the code makes for PORT_NEW m goes as far as a record: m is a
\* Physical port, a PciPf port with a MAC, or a PciVf port whose PF is in the
\* table.
Applies(T, m) ==
    /\ m.flavour \in {DEVLINK_PORT_FLAVOUR_PHYSICAL,
                      DEVLINK_PORT_FLAVOUR_PCI_PF,
                      DEVLINK_PORT_FLAVOUR_PCI_VF}
    /\ m.flavour = DEVLINK_PORT_FLAVOUR_PCI_PF => m.eth_addr # eth_addr_zero
    /\ m.flavour = DEVLINK_PORT_FLAVOUR_PCI_VF =>
           port_table_lookup_phy_bus_dev(
               T, m.bus_dev, DEVLINK_PORT_FLAVOUR_PCI_PF, m.pci_pf_number)
           # NULL

\* C7 (rename convergence): when the event applied last carries ifindex I
\* and name N (a PORT_NEW that is not dropped, or a move), every record
\* with ifindex I has name N afterwards.
C7_RenameConvergence ==
    /\ \A m \in NewPorts(TableDevs, TableVfs), reuse \in BOOLEAN :
           LET T == port_table_update_devlink_port(
                        port_table, m, PORT_NODE_SOURCE_RUNTIME, NoSysfs,
                        reuse)
           IN  (Applies(port_table, m) /\ ~T.nomem) =>
                   \A a \in Live(T) :
                       T.nodes[a].netdev_ifindex = m.netdev_ifindex =>
                           T.nodes[a].netdev_name = m.netdev_name
    /\ \A i \in IfIndexes, n \in NetdevNames :
           LET T == udev_monitor_run(
                        port_table,
                        <<[action |-> "move", ifindex_str |-> decimal(i),
                           sysname |-> n]>>).T
           IN  \A a \in Live(T) :
                   T.nodes[a].netdev_ifindex = i => T.nodes[a].netdev_name = n

\* C8 (option round-trip): for every VF record, with PF MAC M and number V,
\* of the table the drain leaves, prepare(Add) with pf-mac the string form
\* of M and vf-num the decimal form of V succeeds and returns that record's
\* netdev_name.
C8_OptionRoundTrip ==
    \A freed \in FreedReads(DrainReads), reuse \in BOOLEAN :
        LET T == vif_plug_representor_run(
                     port_table, devlink_monitor_sock, udev_monitor,
                     NoSysfs, reuse, freed).T
        IN  \A a \in Live(T) :
                (/\ ~T.nomem
                 /\ T.nodes[a].flavour = DEVLINK_PORT_FLAVOUR_PCI_VF
                 /\ T.nodes[a].pf # NULL
                 /\ T.nodes[T.nodes[a].pf].live) =>
                    LET r == vif_plug_representor_port_prepare(
                                 port_table, devlink_monitor_sock,
                                 udev_monitor, PLUG_OP_CREATE,
                                 [pf_mac |-> eth_addr_format(
                                                 T.nodes[T.nodes[a].pf].mac),
                                  vf_num |-> decimal(T.nodes[a].number)],
                                 NoSysfs, reuse, freed)
                    IN  /\ r.value
                        /\ r.written
                        /\ r.name = T.nodes[a].netdev_name

\* Is the string entirely a base-10 integer in [0, 65536)?
IsVfNum(s) ==
    /\ s # <<>>
    /\ \A i \in 1..Len(s) : s[i] \in DecChars
    /\ NumValue(s, 1, Len(s), 10) < 65536

VfNumStrings ==
    {decimal(0), decimal(1), <<"a", "b", "c">>, <<"0", "x">>,
     <<"-", "1">>, decimal(65536), <<>>}

PfMacStrings == MacStrings \cup {<<"z", "z">>, <<"0", "0", ":", "5", "3">>}

\* C9 (malformed options): prepare(Add) returns not-found whenever vf-num
\* is not entirely a base-10 integer in [0, 65536), and whenever pf-mac does
\* not parse as an Ethernet address.
C9_MalformedNotFound ==
    \A mac \in PfMacStrings, num \in VfNumStrings,
       freed \in FreedReads(DrainReads) :
        (~IsVfNum(num) \/ mac \notin MacStrings) =>
            ~vif_plug_representor_port_prepare(
                 port_table, devlink_monitor_sock, udev_monitor,
                 PLUG_OP_CREATE, [pf_mac |-> mac, vf_num |-> num],
                 NoSysfs, FALSE, freed).value

\* C10 (prepare for Remove): a prepare call with op_type Remove returns
\* true and leaves the table, both sockets and ctx_out as they were.
C10_RemoveSkips ==
    [][(ret'.op = "prepare" /\ ret'.op_type = PLUG_OP_REMOVE) =>
          /\ ret'.value
          /\ UNCHANGED <<port_table, devlink_monitor_sock, udev_monitor,
                         ctx_out>>]_vars

\* prepare(Remove) has returned while a message is pending and a VF is in
\* the table.
C10_Witness ==
    /\ ret.op = "prepare" /\ ret.op_type = PLUG_OP_REMOVE
    /\ Pending > 0
    /\ port_table.mac_vf # <<>>

OptionAbsent(lport_options) ==
    lport_options.pf_mac = NoAttr \/ lport_options.vf_num = NoAttr

C12_PfMacAlone ==
    \A freed \in FreedReads(DrainReads), reuse \in BOOLEAN :
        LET T == vif_plug_representor_run(
                     port_table, devlink_monitor_sock, udev_monitor,
                     NoSysfs, reuse, freed).T
        IN  \A a \in Live(T) :
                (/\ ~T.nomem
                 /\ T.nodes[a].flavour = DEVLINK_PORT_FLAVOUR_PCI_PF
                 /\ T.nodes[a].mac # eth_addr_zero) =>
                    LET r == vif_plug_representor_port_prepare(
                                 port_table, devlink_monitor_sock,
                                 udev_monitor, PLUG_OP_CREATE,
                                 [pf_mac |-> eth_addr_format(T.nodes[a].mac),
                                  vf_num |-> NoAttr],
                                 NoSysfs, reuse, freed)
                    IN  /\ r.value
                        /\ r.written
                        /\ r.name = T.nodes[a].netdev_name

Last(seq) == seq[Len(seq)]

IsVf0(port) == /\ port.flavour = DEVLINK_PORT_FLAVOUR_PCI_VF
               /\ port.pci_pf_number = 0
               /\ port.pci_vf_number = 0

\* C13 (prepare drains first): a prepare(Add) call for VF 0 with both
\* options present acts on the messages pending when it is called: when the
\* last pending devlink message is the PORT_DEL of VF 0 the call finds
\* nothing; when it is a PORT_NEW of VF 0, no uevent is pending and the PF is
\* in the table, the call returns the name of that PORT_NEW; when the last
\* pending uevent is a move of the VF's ifindex, a successful call returns
\* the name of the move.
C13_PrepareDrainsFirst ==
    [][(/\ ret'.op = "prepare"
        /\ ret'.op_type = PLUG_OP_CREATE
        /\ ~OptionAbsent(ret'.lport_options)
        /\ ret'.lport_options.vf_num = decimal(0)) =>
          /\ (/\ devlink_monitor_sock # <<>>
              /\ Last(devlink_monitor_sock).cmd = DEVLINK_CMD_PORT_DEL
              /\ IsVf0(Last(devlink_monitor_sock).port)) => ~ret'.value
          /\ (/\ devlink_monitor_sock # <<>>
              /\ udev_monitor = <<>>
              /\ Last(devlink_monitor_sock).cmd = DEVLINK_CMD_PORT_NEW
              /\ IsVf0(Last(devlink_monitor_sock).port)
              /\ Last(devlink_monitor_sock).port.netdev_ifindex # UINT32_MAX
              /\ port_table_lookup_phy_bus_dev(
                     port_table', Dev3, DEVLINK_PORT_FLAVOUR_PCI_PF, 0)
                 # NULL) =>
                 /\ ret'.value
                 /\ ctx_out'.name
                        = Last(devlink_monitor_sock).port.netdev_name
          /\ (/\ udev_monitor # <<>>
              /\ Last(udev_monitor).action = "move"
              /\ ret'.value) =>
                 ctx_out'.name = Last(udev_monitor).sysname]_vars

\* C14 (run reports every change): a run() call that leaves a table different
\* from the one it found returns true.
C14_RunReportsChange ==
    [][(ret'.op = "run" /\ port_table' # port_table) => ret'.value]_vars

\* The table after the ticks of run() that consume, in this order, the given
\* pending messages of the two sockets.
RECURSIVE Ticks(_, _, _, _, _)
Ticks(T, ticks, sysfs, reuse, freed) ==
    IF ticks = <<>> THEN T
    ELSE Ticks(vif_plug_representor_run(T, Head(ticks).sock, Head(ticks).mon, sysfs, reuse, freed).T,
               Tail(ticks), sysfs, reuse, freed)

\* The ways two messages, one per socket, can meet the ticks of run(): both
\* pending at one tick, or one consumed by an earlier tick than the other.
Deliveries(msg, dev) ==
    {<<[sock |-> <<msg>>, mon |-> <<dev>>]>>,
     <<[sock |-> <<msg>>, mon |-> <<>>], [sock |-> <<>>, mon |-> <<dev>>]>>,
     <<[sock |-> <<>>, mon |-> <<dev>>], [sock |-> <<msg>>, mon |-> <<>>]>>}

\* C19 (rename race): a VF hot-added under a PF of the table (a PORT_NEW
\* with the initial name) and renamed by the kernel (a move with the final
\* name) has the final name once both messages are consumed, however the
\* two deliveries meet the ticks of run().
C19_RenameRace ==
    \A initial \in NetdevNames, final \in NetdevNames, reuse \in BOOLEAN,
       freed \in FreedReads(DanglingAddrs(port_table)) :
        \A ticks \in Deliveries(
                DevlinkMsg(DEVLINK_CMD_PORT_NEW, ProviderVf(11, initial)),
                [action |-> "move", ifindex_str |-> decimal(11),
                 sysname |-> final]) :
            LET T == Ticks(port_table, ticks, NoSysfs, reuse, freed)
            IN  (/\ devlink_monitor_sock = <<>> /\ udev_monitor = <<>>
                 /\ port_table_lookup_ifindex(port_table, 11) = NULL
                 /\ port_table_lookup_phy_bus_dev(
                        port_table, Dev3, DEVLINK_PORT_FLAVOUR_PCI_PF, 0)
                    # NULL
                 /\ ~T.nomem) =>
                    \A a \in Live(T) :
                        T.nodes[a].netdev_ifindex = 11 =>
                            T.nodes[a].netdev_name = final

\* --------------------------------------------------- ticks of run()
\* The two sockets have receive buffers of their own: a tick of run() can
\* find messages pending on both.
TickDevlinkRecv(msg) ==
    /\ Len(devlink_monitor_sock) < MaxQueue
    /\ devlink_monitor_sock' = Append(devlink_monitor_sock, msg)
    /\ ret' = NoCall
    /\ UNCHANGED <<port_table, udev_monitor, ctx_out,
                   life_vars>>

TickUdevRecv(dev) ==
    /\ Len(udev_monitor) < MaxQueue
    /\ udev_monitor' = Append(udev_monitor, dev)
    /\ ret' = NoCall
    /\ UNCHANGED <<port_table, devlink_monitor_sock, ctx_out,
                   life_vars>>

NextTick ==
    \/ \E msg \in ProviderMsgs : TickDevlinkRecv(msg)
    \/ \E dev \in ProviderUevents : TickUdevRecv(dev)
    \/ Run

SpecTick == Init /\ [][NextTick]_vars

\* C15 (run reports only real changes): a run() call that returns true
\* leaves a table different from the one it found.
C15_RunReportsOnlyChange ==
    [][(ret'.op = "run" /\ ret'.value) => port_table' # port_table]_vars

\* ------------------------------------------- the life of the provider
\* The provider from before vif_plug_representor_init on, with the loops of
\* run() taken one iteration at a time and the kernel's ports beside the
\* table.  The kernel produces its events between two calls of the facade.
MaxEvents == 3

ENOBUFS == 105
E2BIG == 7
EPROTO == 71

\* devlink_port_dump: a fresh table, filled from the replies of the kernel
\* in order; the loop ends at the end of the replies or at the first one
\* that does not parse, which sets the dump's status to EPROTO.  The status
\* is what nl_dl_dump_finish returns; the function returns 0 after the loop.
RECURSIVE dump_replies(_, _)
dump_replies(T, replies) ==
    IF replies = <<>> THEN T
    ELSE dump_replies(port_table_update_devlink_port(T, Head(replies), PORT_NODE_SOURCE_DUMP, NoSysfs, FALSE),
                      Tail(replies))

devlink_port_dump(init_error, replies, n_parsed) ==
    IF init_error # 0
    THEN [error |-> init_error, T |-> port_table_create, status |-> 0]
    ELSE [error |-> 0,
          T |-> dump_replies(port_table_create, SubSeq(replies, 1, n_parsed)),
          status |-> IF n_parsed < Len(replies) THEN EPROTO ELSE 0]

\* udev_monitor_init: what is left of the udev objects by the first step
\* that fails.
udev_monitor_init(udev_new, monitor_new, enable_receiving) ==
    IF ~udev_new THEN "NULL"
    ELSE IF ~monitor_new THEN "no_monitor"
    ELSE IF ~enable_receiving THEN "not_receiving"
    ELSE "receiving"

init_after_dump(d, udev_state) ==
    IF d.error # 0
    THEN [error |-> d.error, T |-> d.T, status |-> d.status, udev |-> "NULL"]
    ELSE [error |-> 0, T |-> d.T, status |-> d.status, udev |-> udev_state]

vif_plug_representor_init(monitor_error, init_error, replies, n_parsed, udev_state) ==
    IF monitor_error # 0
    THEN [error |-> monitor_error, T |-> port_table_create, status |-> 0,
          udev |-> "NULL"]
    ELSE init_after_dump(devlink_port_dump(init_error, replies, n_parsed),
                         udev_state)

\* udev_monitor is NULL: udev_monitor_get_fd gives no descriptor.
NoMonitor == udev \in {"NULL", "no_monitor"}

\* The replies of a bulk dump: the PF ahead of its VF.
KernelVfs == {p \in kernel : p.flavour = DEVLINK_PORT_FLAVOUR_PCI_VF}

KernelDump ==
    (IF ProviderPf \in kernel THEN <<ProviderPf>> ELSE <<>>)
    \o (IF KernelVfs = {} THEN <<>> ELSE <<CHOOSE p \in KernelVfs : TRUE>>)

InitLife ==
    /\ port_table = port_table_create
    /\ devlink_monitor_sock = <<>>
    /\ udev_monitor = <<>>
    /\ ret = NoCall
    /\ ctx_out = [written |-> FALSE, name |-> ""]
    /\ pc = "start"
    /\ in_call = NoCall
    /\ changed = NoChange
    /\ sk_err = 0
    /\ udev = "NULL"
    /\ error = 0
    /\ dump_status = 0
    /\ kernel \in {{}, {ProviderPf}, {ProviderPf, ProviderVf(11, "p0")}}
    /\ n_events = 0

InitReturns(r) ==
    /\ pc' = IF r.error = 0 THEN "idle" ELSE "failed"
    /\ port_table' = r.T
    /\ error' = r.error
    /\ dump_status' = r.status
    /\ udev' = r.udev
    /\ UNCHANGED <<devlink_monitor_sock, udev_monitor, ret, ctx_out, in_call,
                   changed, sk_err, kernel, n_events>>

LifeInit ==
    /\ pc = "start"
    /\ \E monitor_error \in {0, EPROTO}, init_error \in {0, EPROTO},
          n_parsed \in 0..Len(KernelDump),
          udev_new \in BOOLEAN, monitor_new \in BOOLEAN,
          enable_receiving \in BOOLEAN :
           InitReturns(vif_plug_representor_init(
                           monitor_error, init_error, KernelDump, n_parsed,
                           udev_monitor_init(udev_new, monitor_new,
                                             enable_receiving)))

\* A notification of the kernel on the devlink multicast group: queued if the
\* receive buffer has room, else lost with ENOBUFS left pending on the socket.
KernelNotify(msg) ==
    /\ devlink_monitor_sock' =
           IF Len(devlink_monitor_sock) < MaxQueue
           THEN Append(devlink_monitor_sock, msg)
           ELSE devlink_monitor_sock
    /\ sk_err' = IF Len(devlink_monitor_sock) < MaxQueue THEN sk_err
                 ELSE ENOBUFS

Gone(port) == [port EXCEPT !.netdev_ifindex = UINT32_MAX,
                           !.netdev_name = dl_str_not_present]

KernelEvent ==
    /\ pc = "idle"
    /\ n_events < MaxEvents
    /\ n_events' = n_events + 1
    /\ UNCHANGED <<port_table, ret, ctx_out, pc, in_call, changed, udev,
                   error, dump_status>>

KernelNew(port) ==
    /\ KernelEvent
    /\ port \notin kernel
    /\ port.flavour = DEVLINK_PORT_FLAVOUR_PCI_VF =>
           ProviderPf \in kernel /\ KernelVfs = {}
    /\ kernel' = kernel \cup {port}
    /\ KernelNotify(DevlinkMsg(DEVLINK_CMD_PORT_NEW, port))
    /\ UNCHANGED udev_monitor

KernelDel(port) ==
    /\ KernelEvent
    /\ port \in kernel
    /\ port.flavour = DEVLINK_PORT_FLAVOUR_PCI_PF => KernelVfs = {}
    /\ kernel' = kernel \ {port}
    /\ KernelNotify(DevlinkMsg(DEVLINK_CMD_PORT_DEL, Gone(port)))
    /\ UNCHANGED udev_monitor

\* A rename of the VF's netdev: a uevent, received if the monitor is.
KernelMove(port, sysname) ==
    /\ KernelEvent
    /\ port \in KernelVfs
    /\ port.netdev_name # sysname
    /\ udev = "receiving" => Len(udev_monitor) < MaxQueue
    /\ kernel' = (kernel \ {port})
                 \cup {[port EXCEPT !.netdev_name = sysname]}
    /\ udev_monitor' =
           IF udev = "receiving"
           THEN Append(udev_monitor,
                       [action |-> "move",
                        ifindex_str |-> decimal(port.netdev_ifindex),
                        sysname |-> sysname])
           ELSE udev_monitor
    /\ UNCHANGED <<devlink_monitor_sock, sk_err>>

\* Another error comes to be pending on the devlink socket.
SockError ==
    /\ pc = "idle"
    /\ sk_err = 0
    /\ sk_err' = E2BIG
    /\ UNCHANGED <<port_table, devlink_monitor_sock, udev_monitor, ret,
                   ctx_out, pc, in_call, changed, udev, error, dump_status,
                   kernel, n_events>>

\* vif_plug_representor_run is entered, by the caller or by prepare.
LifeRunEnter ==
    /\ pc = "idle"
    /\ pc' = "devlink_recv"
    /\ in_call' = [NoCall EXCEPT !.op = "run"]
    /\ changed' = NoChange
    /\ ret' = NoCall
    /\ UNCHANGED <<port_table, devlink_monitor_sock, udev_monitor, ctx_out,
                   sk_err, udev, error, dump_status, kernel, n_events>>

LifePrepare(op_type, lport_options) ==
    /\ pc = "idle"
    /\ IF op_type = PLUG_OP_REMOVE \/ OptionAbsent(lport_options)
       THEN /\ ret' = [op |-> "prepare", op_type |-> op_type,
                       lport_options |-> lport_options,
                       value |-> op_type = PLUG_OP_REMOVE]
            /\ UNCHANGED <<pc, in_call, changed>>
       ELSE /\ pc' = "devlink_recv"
            /\ in_call' = [op |-> "prepare", op_type |-> op_type,
                           lport_options |-> lport_options, value |-> FALSE]
            /\ changed' = NoChange
            /\ ret' = NoCall
    /\ UNCHANGED <<port_table, devlink_monitor_sock, udev_monitor, ctx_out,
                   sk_err, udev, error, dump_status, kernel, n_events>>

\* One iteration of the loop of devlink_monitor_run.  The socket reports a
\* pending error ahead of the queued messages and forgets it.
DevlinkMessage(r) ==
    /\ ~r.T.nomem
    /\ port_table' = r.T
    /\ changed' = [changed EXCEPT !.devlink = @ \/ r.changed]
    /\ devlink_monitor_sock' = Tail(devlink_monitor_sock)
    /\ UNCHANGED <<pc, sk_err>>

DevlinkIter ==
    /\ pc = "devlink_recv"
    /\ IF sk_err # 0
       THEN /\ sk_err' = 0
            /\ pc' = IF sk_err = ENOBUFS THEN "devlink_recv" ELSE "udev_recv"
            /\ UNCHANGED <<port_table, changed, devlink_monitor_sock>>
       ELSE IF devlink_monitor_sock = <<>>
       THEN /\ pc' = "udev_recv"
            /\ UNCHANGED <<port_table, changed, devlink_monitor_sock, sk_err>>
       ELSE \E reuse \in ReuseChoices(port_table),
               freed \in FreedReads(DanglingAddrs(port_table)) :
                DevlinkMessage(devlink_monitor_run(
                                   port_table, <<Head(devlink_monitor_sock)>>,
                                   NoSysfs, reuse, freed))
    /\ UNCHANGED <<udev_monitor, ret, ctx_out, in_call, udev, error,
                   dump_status, kernel, n_events>>

\* One iteration of the loop of udev_monitor_run: the recv that peeks at the
\* socket, and the device received if there is one.
UdevDevice(r) ==
    /\ port_table' = r.T
    /\ changed' = [changed EXCEPT !.udev = @ \/ r.changed]
    /\ udev_monitor' = Tail(udev_monitor)
    /\ UNCHANGED pc

UdevIter ==
    /\ pc = "udev_recv"
    /\ IF NoMonitor
       THEN /\ pc' = "udev_err"
            /\ UNCHANGED <<port_table, changed, udev_monitor>>
       ELSE IF udev_monitor = <<>>
       THEN /\ pc' = "return"
            /\ UNCHANGED <<port_table, changed, udev_monitor>>
       ELSE UdevDevice(udev_monitor_run(port_table, <<Head(udev_monitor)>>))
    /\ UNCHANGED <<devlink_monitor_sock, ret, ctx_out, in_call, sk_err, udev,
                   error, dump_status, kernel, n_events>>

\* recv failed with an errno other than EAGAIN: the error is logged and the
\* loop goes round.
UdevErr ==
    /\ pc = "udev_err"
    /\ pc' = "udev_recv"
    /\ UNCHANGED <<port_table, devlink_monitor_sock, udev_monitor, ret,
                   ctx_out, in_call, changed, sk_err, udev, error,
                   dump_status, kernel, n_events>>

\* run() returns to its caller; prepare goes on to its lookup.
LookupReturns(r) ==
    /\ ret' = [in_call EXCEPT !.value = r.value]
    /\ ctx_out' = IF r.written
                  THEN [written |-> TRUE, name |-> r.name]
                  ELSE ctx_out

LifeReturn ==
    /\ pc = "return"
    /\ pc' = "idle"
    /\ in_call' = NoCall
    /\ IF in_call.op = "run"
       THEN /\ ret' = [in_call EXCEPT
                          !.value = changed.devlink /\ changed.udev]
            /\ UNCHANGED ctx_out
       ELSE \E freed \in FreedReads(DanglingAddrs(port_table)) :
                LookupReturns(prepare_lookup(
                                  port_table, in_call.lport_options.pf_mac,
                                  in_call.lport_options.vf_num,
                                  eth_addr_from_string(
                                      in_call.lport_options.pf_mac),
                                  freed))
    /\ UNCHANGED <<port_table, devlink_monitor_sock, udev_monitor, changed,
                   sk_err, udev, error, dump_status, kernel, n_events>>

LifeOptions ==
    {[pf_mac |-> eth_addr_format(MacA), vf_num |-> NoAttr],
     [pf_mac |-> eth_addr_format(MacA), vf_num |-> decimal(0)]}

NextLife ==
    \/ LifeInit
    \/ \E port \in {ProviderPf, ProviderVf(11, "p0")} : KernelNew(port)
    \/ \E port \in kernel : KernelDel(port)
    \/ \E port \in kernel, sysname \in NetdevNames : KernelMove(port, sysname)
    \/ SockError
    \/ LifeRunEnter
    \/ \E lport_options \in LifeOptions :
           LifePrepare(PLUG_OP_CREATE, lport_options)
    \/ DevlinkIter
    \/ UdevIter
    \/ UdevErr
    \/ LifeReturn

\* The provider's thread takes its steps, and the controller's main loop
\* calls run() again and again.
SpecLife ==
    /\ InitLife
    /\ [][NextLife]_vars
    /\ WF_vars(LifeInit)
    /\ WF_vars(LifeRunEnter)
    /\ WF_vars(DevlinkIter)
    /\ WF_vars(UdevIter)
    /\ WF_vars(UdevErr)
    /\ WF_vars(LifeReturn)

\* C16 (run terminates): every run() that was entered returns.
C16_RunTerminates ==
    (pc = "devlink_recv") ~> (pc = "idle")

\* C17 (init reports devlink failures): vif_plug_representor_init returns
\* 0 only if the bulk dump completed without error.
C17_InitReportsDumpFailure ==
    (pc # "start" /\ error = 0) => dump_status = 0

\* C18 (degraded uevent mode): when udev_monitor_init created no monitor,
\* initialisation succeeds, and every call of run() or prepare() that is
\* entered returns with the pending devlink messages applied.
C18_DegradedMode ==
    [](NoMonitor /\ pc = "devlink_recv" /\ error = 0
          => <>(pc = "idle" /\ devlink_monitor_sock = <<>>))

\* The ports the table holds and the ports the kernel has, by flavour,
\* ifindex and name.
TablePorts ==
    {[flavour |-> Nodes[a].flavour,
      netdev_ifindex |-> Nodes[a].netdev_ifindex,
      netdev_name |-> Nodes[a].netdev_name] : a \in Live(port_table)}

KernelPorts ==
    {[flavour |-> p.flavour, netdev_ifindex |-> p.netdev_ifindex,
      netdev_name |-> p.netdev_name] : p \in kernel}

\* C20 (overflow recovery): once a notification was lost to an overflow of
\* the devlink socket, the table comes to hold the kernel's ports again.
C20_OverflowRepaired ==
    (sk_err = ENOBUFS /\ udev = "receiving") ~> (TablePorts = KernelPorts)

\* ------------------------------------------------ records and names
\* The record port_table_update_entry returns: the record it found or the
\* one it created, NULL for a function whose PF is not in the table.
port_table_update_entry_pn(T, bus_dev, netdev_ifindex, number, pci_pf_number, pci_vf_number, flavour, reuse) ==
    IF flavour = DEVLINK_PORT_FLAVOUR_PHYSICAL
       \/ flavour = DEVLINK_PORT_FLAVOUR_PCI_PF
    THEN LET pn == port_table_lookup_phy_bus_dev(
                       T, bus_dev, flavour,
                       IF flavour = DEVLINK_PORT_FLAVOUR_PHYSICAL
                          THEN number ELSE pci_pf_number)
         IN  IF pn # NULL THEN pn ELSE xmalloc(T, reuse)
    ELSE LET phy == port_table_lookup_phy_bus_dev(
                        T, bus_dev, DEVLINK_PORT_FLAVOUR_PCI_PF,
                        pci_pf_number)
             pn == port_table_lookup_ifindex(T, netdev_ifindex)
         IN  IF phy = NULL THEN NULL
             ELSE IF pn # NULL THEN pn ELSE xmalloc(T, reuse)

\* The early returns of port_table_update_devlink_port: an unsupported
\* flavour, and a PF without function MAC whose fallback fails.
devlink_port_dropped(T, port_entry, sysfs) ==
    LET phy == port_table_lookup_phy_bus_dev(
                   T, port_entry.bus_dev, DEVLINK_PORT_FLAVOUR_PHYSICAL,
                   port_entry.pci_pf_number)
    IN  \/ port_entry.flavour \notin {DEVLINK_PORT_FLAVOUR_PHYSICAL,
                                      DEVLINK_PORT_FLAVOUR_PCI_PF,
                                      DEVLINK_PORT_FLAVOUR_PCI_VF}
        \/ /\ port_entry.flavour = DEVLINK_PORT_FLAVOUR_PCI_PF
           /\ eth_addr_is_zero(port_entry.eth_addr)
           /\ \/ phy = NULL
              \/ ~compat_get_host_pf_mac(sysfs, T.nodes[phy].netdev_name).ok

\* The records whose netdev_name string one message frees: port_node_update
\* frees the name of the record an update finds, port_node_destroy the name
\* of the record a delete removes.
devlink_name_frees(T, msg, sysfs, reuse, freed) ==
    IF msg.cmd = DEVLINK_CMD_PORT_NEW
    THEN {a \in Live(T) :
             /\ msg.port.netdev_ifindex # UINT32_MAX
             /\ ~devlink_port_dropped(T, msg.port, sysfs)
             /\ a = port_table_update_entry_pn(
                        T, msg.port.bus_dev, msg.port.netdev_ifindex,
                        msg.port.number, msg.port.pci_pf_number,
                        msg.port.pci_vf_number, msg.port.flavour, reuse)}
    ELSE {a \in Live(T) :
             ~port_table_delete_devlink_port(T, msg.port, freed).nodes[a].live}

udev_name_frees(T, dev) ==
    {a \in Live(T) :
        /\ udev_monitor_run(T, <<dev>>).changed
        /\ a = port_table_lookup_ifindex(T, strtol(dev.ifindex_str).value)}

\* C21 (name borrow): when prepare(Add) has returned a name, taken from the
\* record its lookup found, no message that run() handles next, ahead of the
\* caller's port_finish, frees the string the name designates.
C21_NameBorrow ==
    (ret.op = "prepare" /\ ret.op_type = PLUG_OP_CREATE /\ ret.value) =>
        \A freed \in FreedReads(DanglingAddrs(port_table)), reuse \in BOOLEAN :
            LET pn == port_table_lookup_pf_mac_vf(
                          port_table,
                          eth_addr_from_string(ret.lport_options.pf_mac),
                          uint16(strtol(ret.lport_options.vf_num).value),
                          freed)
            IN  pn # NULL =>
                   /\ \A msg \in ProviderMsgs :
                          pn \notin devlink_name_frees(port_table, msg,
                                                       NoSysfs, reuse, freed)
                   /\ \A dev \in ProviderUevents :
                          pn \notin udev_name_frees(port_table, dev)

\* The PF records whose mac port_table_lookup_pf_mac_vf reads: the pf of
\* every entry of the bucket that has the VF number, from the head to the
\* entry the lookup returns.
lookup_pf_mac_vf_reads(T, mac, vf_num, freed) ==
    LET pn == port_table_lookup_pf_mac_vf(T, mac, vf_num, freed)
        idx == {i \in 1..Len(T.mac_vf) :
                   /\ T.mac_vf[i].hash = port_table_hash_mac_vf(mac, vf_num)
                   /\ T.nodes[T.mac_vf[i].node].number = vf_num
                   /\ T.nodes[T.mac_vf[i].node].pf # NULL}
        stop == IF pn = NULL THEN Len(T.mac_vf)
                ELSE CHOOSE i \in 1..Len(T.mac_vf) : T.mac_vf[i].node = pn
    IN  {T.nodes[T.mac_vf[i].node].pf : i \in {j \in idx : j <= stop}}

\* C22 (out-of-order delete): no lookup by PF MAC and VF number reads a PF
\* record that was removed, and a VF whose PF was removed is a miss.
C22_OutOfOrderDelete ==
    \A mac \in PfMacs, vf_num \in VfNumbers,
       freed \in FreedReads(DanglingAddrs(port_table)) :
        LET pn == port_table_lookup_pf_mac_vf(port_table, mac, vf_num, freed)
        IN  /\ \A pf \in lookup_pf_mac_vf_reads(port_table, mac, vf_num,
                                                freed) :
                   Nodes[pf].live
            /\ pn # NULL => Nodes[Nodes[pn].pf].live

\* The PF records created for the device and the PF number of a message.
PfRecords(T, m) ==
    {a \in Live(T) : /\ T.nodes[a].flavour = DEVLINK_PORT_FLAVOUR_PCI_PF
                     /\ T.nodes[a].bus_dev = m.bus_dev
                     /\ T.nodes[a].number = m.pci_pf_number}

\* C23 (VF without PF): a PciVf update_entry for which the table has no
\* PciPf record of its bus, dev and PF number returns no record and leaves
\* the table as it was.
C23_VfWithoutPfRejected ==
    \A m \in VfPorts(PhyDevs, IfIndexes, NetdevNames, VfNumbers),
       reuse \in BOOLEAN :
        PfRecords(port_table, m) = {} =>
            /\ port_table_update_entry(
                   port_table, m.bus_dev, m.netdev_ifindex, m.netdev_name,
                   m.number, m.pci_pf_number, m.pci_vf_number, m.flavour,
                   m.eth_addr, PORT_NODE_SOURCE_RUNTIME, reuse) = port_table
            /\ port_table_update_entry_pn(
                   port_table, m.bus_dev, m.netdev_ifindex, m.number,
                   m.pci_pf_number, m.pci_vf_number, m.flavour, reuse) = NULL

\* The Physical records created for the device of a PF message, under the
\* PF number.
PhysicalRecords(T, m) ==
    {a \in Live(T) : /\ T.nodes[a].flavour = DEVLINK_PORT_FLAVOUR_PHYSICAL
                     /\ T.nodes[a].bus_dev = m.bus_dev
                     /\ T.nodes[a].number = m.pci_pf_number}

\* C24 (PF MAC fallback): a PciPf message without function MAC changes the
\* table only if the table has the Physical record of its bus, dev and PF
\* number and sysfs gives a MAC for that record's netdev; a PF record it
\* creates has that MAC; no Physical record is modified.
C24_PfMacFallback ==
    \A m \in PfPorts(PhyDevs, IfIndexes, NetdevNames, {eth_addr_zero}),
       sysfs \in SysfsStates, reuse \in BOOLEAN :
        LET T == port_table_update_devlink_port(
                     port_table, m, PORT_NODE_SOURCE_RUNTIME, sysfs, reuse)
            macs == {sysfs[Nodes[p].netdev_name] :
                        p \in PhysicalRecords(port_table, m)} \ {<<>>}
        IN  /\ T # port_table => macs # {}
            /\ \A a \in Live(T) \ Live(port_table) : T.nodes[a].mac \in macs
            /\ \A a \in Live(port_table) :
                   Nodes[a].flavour = DEVLINK_PORT_FLAVOUR_PHYSICAL =>
                       T.nodes[a] = Nodes[a]

\* C25 (PF MAC refresh): when a PciPf message without function MAC has
\* created the PF record with the MAC of the sysfs fallback, and a later
\* message for the same bus, dev and PF number carries a function MAC, the
\* PF record has the MAC of that later message.
C25_PfMacRefresh ==
    \A m0 \in PfPorts(TableDevs, IfIndexes, NetdevNames, {eth_addr_zero}),
       m \in PfPorts(TableDevs, IfIndexes, NetdevNames, PfMacs),
       sysfs \in SysfsStates, reuse \in BOOLEAN :
        LET T0 == port_table_update_devlink_port(
                      port_table, m0, PORT_NODE_SOURCE_RUNTIME, sysfs, reuse)
            T == port_table_update_devlink_port(
                     T0, m, PORT_NODE_SOURCE_RUNTIME, sysfs, reuse)
        IN  (/\ PfRecords(port_table, m0) = {}
             /\ PfRecords(T0, m0) # {}
             /\ m.bus_dev = m0.bus_dev
             /\ m.pci_pf_number = m0.pci_pf_number) =>
                \A a \in PfRecords(T, m) : T.nodes[a].mac = m.eth_addr

\* The flavours of include/linux/devlink.h the provider has no record for.
DEVLINK_PORT_FLAVOUR_CPU == "CPU"
DEVLINK_PORT_FLAVOUR_DSA == "DSA"
DEVLINK_PORT_FLAVOUR_VIRTUAL == "VIRTUAL"
DEVLINK_PORT_FLAVOUR_UNUSED == "UNUSED"

UnsupportedFlavours ==
    {DEVLINK_PORT_FLAVOUR_CPU, DEVLINK_PORT_FLAVOUR_DSA,
     DEVLINK_PORT_FLAVOUR_VIRTUAL, DEVLINK_PORT_FLAVOUR_UNUSED,
     DEVLINK_PORT_FLAVOUR_PCI_SF}

\* Port messages of those flavours.  The decoder takes every attribute a
\* message carries, whatever the flavour: the PF and VF numbers are those of
\* a port of the table or absent.
UnsupportedPorts(devs, ifs, names) ==
    {dl_port(bd, i, n, UINT32_MAX, pf, vf, flavour, eth_addr_zero) :
        bd \in devs, i \in ifs, n \in names,
        pf \in PfNumbers \cup {UINT16_MAX},
        vf \in TableVfs \cup {UINT16_MAX},
        flavour \in UnsupportedFlavours}

\* C26 (unsupported flavours): a port message of a flavour other than
\* Physical, PciPf and PciVf leaves the table as it was, in the bulk dump,
\* as a multicast PORT_NEW and as a multicast PORT_DEL.
C26_UnsupportedFlavourIgnored ==
    /\ \A port \in UnsupportedPorts(TableDevs, IfIndexes, NetdevNames),
          reuse \in BOOLEAN :
           /\ port_table_update_devlink_port(
                  port_table, port, PORT_NODE_SOURCE_DUMP, NoSysfs, reuse)
              = port_table
           /\ devlink_monitor_run(
                  port_table, <<DevlinkMsg(DEVLINK_CMD_PORT_NEW, port)>>,
                  NoSysfs, reuse, [a \in Addrs |-> MacB]).T = port_table
    /\ \A port \in UnsupportedPorts(TableDevs, {UINT32_MAX},
                                    {dl_str_not_present}),
          freed \in FreedReads(DanglingAddrs(port_table)) :
           devlink_monitor_run(
               port_table, <<DevlinkMsg(DEVLINK_CMD_PORT_DEL, port)>>,
               NoSysfs, FALSE, freed).T = port_table

\* C27 (PORT_NEW without ifindex): a run() that finds on the devlink socket
\* only PORT_NEW messages that lack netdev_ifindex leaves the table as the
\* pending uevents alone make it and returns false; and in any table such a
\* message ahead of a PORT_DEL makes no difference to what the drain does.
C27_NoIfindexIgnored ==
    /\ [][(/\ ret'.op = "run"
           /\ devlink_monitor_sock # <<>>
           /\ \A i \in 1..Len(devlink_monitor_sock) :
                  NoIfindex(devlink_monitor_sock[i])) =>
             /\ ~ret'.value
             /\ port_table' = udev_monitor_run(port_table, udev_monitor).T]_vars
    /\ [](\A msg \in {x \in ProviderMsgs : NoIfindex(x)},
             del \in {x \in ProviderMsgs : x.cmd = DEVLINK_CMD_PORT_DEL},
             freed \in FreedReads(DrainReads) :
              devlink_monitor_run(port_table, <<msg, del>>, NoSysfs, FALSE,
                                  freed)
              = [T |-> port_table_delete_devlink_port(port_table, del.port,
                                                      freed),
                 changed |-> FALSE])

\* The PORT_NEW without ifindex is pending beside a move of the VF's netdev,
\* with the PF and the VF in the table.
C27_Witness ==
    /\ devlink_monitor_sock # <<>>
    /\ NoIfindex(Head(devlink_monitor_sock))
    /\ udev_monitor # <<>>
    /\ Head(udev_monitor).action = "move"
    /\ port_table_lookup_ifindex(port_table, 11) # NULL
    /\ port_table.bus_dev # <<>>

\* C28 (VF insert-or-update): in a table with a PciPf record P for the bus,
\* dev and PF number of a PciVf update_entry that the allocator can serve,
\* lookup_pf_mac_vf(P.mac, V) and lookup_ifindex(I) afterwards return one
\* record, whose ifindex is I, name N, number V and pf P.
C28_VfStored ==
    \A m \in VfPorts(TableDevs, IfIndexes, NetdevNames, TableVfs),
       reuse \in ReuseChoices(port_table),
       freed \in FreedReads(DanglingAddrs(port_table)) :
        LET T == port_table_update_entry(
                     port_table, m.bus_dev, m.netdev_ifindex, m.netdev_name,
                     m.number, m.pci_pf_number, m.pci_vf_number, m.flavour,
                     m.eth_addr, PORT_NODE_SOURCE_RUNTIME, reuse)
        IN  \A P \in PfRecords(port_table, m) :
                ~T.nomem =>
                    LET pn == port_table_lookup_ifindex(T, m.netdev_ifindex)
                    IN  /\ pn # NULL
                        /\ port_table_lookup_pf_mac_vf(
                               T, port_table.nodes[P].mac, m.pci_vf_number,
                               freed) = pn
                        /\ T.nodes[pn].netdev_ifindex = m.netdev_ifindex
                        /\ T.nodes[pn].netdev_name = m.netdev_name
                        /\ T.nodes[pn].number = m.pci_vf_number
                        /\ T.nodes[pn].pf = P

\* C29 (Physical/PF insert-or-update): after an update_entry of flavour
\* Physical or PciPf that the allocator can serve, lookup_phy_bus_dev with
\* the message's bus, dev, flavour and key and lookup_ifindex(I) return one
\* record, whose ifindex is I and name N, and which has the flavour, number
\* and mac given when it is new.
C29_PhyStored ==
    \A m \in PhysicalPorts(TableDevs, IfIndexes, NetdevNames)
             \cup PfPorts(TableDevs, IfIndexes, NetdevNames, PfMacs),
       reuse \in ReuseChoices(port_table) :
        LET key == IF m.flavour = DEVLINK_PORT_FLAVOUR_PHYSICAL
                   THEN m.number ELSE m.pci_pf_number
            old == port_table_lookup_phy_bus_dev(port_table, m.bus_dev,
                                                 m.flavour, key)
            T == port_table_update_entry(
                     port_table, m.bus_dev, m.netdev_ifindex, m.netdev_name,
                     m.number, m.pci_pf_number, m.pci_vf_number, m.flavour,
                     m.eth_addr, PORT_NODE_SOURCE_RUNTIME, reuse)
            pn == port_table_lookup_phy_bus_dev(T, m.bus_dev, m.flavour, key)
        IN  ~T.nomem =>
                /\ pn # NULL
                /\ port_table_lookup_ifindex(T, m.netdev_ifindex) = pn
                /\ T.nodes[pn].netdev_ifindex = m.netdev_ifindex
                /\ T.nodes[pn].netdev_name = m.netdev_name
                /\ old = NULL =>
                       /\ T.nodes[pn].flavour = m.flavour
                       /\ T.nodes[pn].number = key
                       /\ T.nodes[pn].mac = m.eth_addr

\* The table T without the record pn: the record freed, its entries taken
\* out of the three indices, everything else as it was.
Without(T, pn) ==
    [T EXCEPT !.ifindex = hmap_remove(T.ifindex, pn),
              !.mac_vf = hmap_remove(T.mac_vf, pn),
              !.bus_dev = hmap_remove(T.bus_dev, pn),
              !.nodes[pn] = FreeNode]

\* The VF records of number m.pci_vf_number whose pf is a PF record of the
\* device and PF number of m.
VfRecords(T, m) ==
    {a \in Live(T) : /\ T.nodes[a].flavour = DEVLINK_PORT_FLAVOUR_PCI_VF
                     /\ T.nodes[a].number = m.pci_vf_number
                     /\ T.nodes[a].pf \in PfRecords(T, m)}

\* C30 (delete): delete_entry for a record the table holds removes that
\* record and nothing else; afterwards lookup_ifindex misses for its ifindex
\* and the look-up by its key misses (lookup_pf_mac_vf for a PciVf,
\* lookup_phy_bus_dev for a Physical or PciPf).
C30_DeleteExact ==
    \A m \in GonePorts(TableDevs, TableVfs),
       freed \in FreedReads(DanglingAddrs(port_table)) :
        LET key == IF m.flavour = DEVLINK_PORT_FLAVOUR_PHYSICAL
                   THEN m.number ELSE m.pci_pf_number
            T == port_table_delete_entry(
                     port_table, m.bus_dev, m.number, m.pci_pf_number,
                     m.pci_vf_number, m.flavour, freed)
        IN  /\ m.flavour \in {DEVLINK_PORT_FLAVOUR_PHYSICAL,
                              DEVLINK_PORT_FLAVOUR_PCI_PF} =>
                \A pn \in {a \in Live(port_table) :
                              /\ Nodes[a].flavour = m.flavour
                              /\ Nodes[a].bus_dev = m.bus_dev
                              /\ Nodes[a].number = key} :
                    /\ T = Without(port_table, pn)
                    /\ port_table_lookup_phy_bus_dev(T, m.bus_dev, m.flavour,
                                                     key) = NULL
                    /\ port_table_lookup_ifindex(
                           T, Nodes[pn].netdev_ifindex) = NULL
            /\ m.flavour = DEVLINK_PORT_FLAVOUR_PCI_VF =>
                \A pn \in VfRecords(port_table, m) :
                    /\ T = Without(port_table, pn)
                    /\ port_table_lookup_pf_mac_vf(
                           T, Nodes[Nodes[pn].pf].mac, m.pci_vf_number,
                           freed) = NULL
                    /\ port_table_lookup_ifindex(
                           T, Nodes[pn].netdev_ifindex) = NULL

\* ------------------------------------- two PFs that report one MAC
\* The table entry points on a heap of DupNodes records, with the PFs of two
\* devices that report the same MAC and VF 0 of each.
DupNodes == 4
DupAddrs == 1..DupNodes
DupDevs == {Dev3, Dev4}
DupIfIndexes == {11, 12}

DupNew ==
    PfPorts({Dev3}, {10}, {"p0"}, {MacA})
    \cup PfPorts({Dev4}, {13}, {"p0"}, {MacA})
    \cup VfPorts(DupDevs, DupIfIndexes, {"eth0"}, TableVfs)

DupGone == VfPorts(DupDevs, {UINT32_MAX}, {dl_str_not_present}, TableVfs)

DupFreedReads(T) ==
    {f \in [DupAddrs -> PfMacs] :
        \A a \in DupAddrs \ DanglingAddrs(T) : f[a] = MacB}

InitDup ==
    /\ port_table = [port_table_create EXCEPT
                        !.nodes = [a \in DupAddrs |-> FreeNode]]
    /\ devlink_monitor_sock = <<>>
    /\ udev_monitor = <<>>
    /\ ret = NoCall
    /\ ctx_out = [written |-> FALSE, name |-> ""]
    /\ pc = "idle"
    /\ in_call = NoCall
    /\ changed = NoChange
    /\ sk_err = 0
    /\ udev = "receiving"
    /\ error = 0
    /\ dump_status = 0
    /\ kernel = {}
    /\ n_events = 0

DupDeleteDevlinkPort(port_entry) ==
    \E freed \in DupFreedReads(port_table) :
        /\ port_table' = port_table_delete_devlink_port(port_table,
                                                        port_entry, freed)
        /\ UNCHANGED <<devlink_monitor_sock, udev_monitor, ret, ctx_out,
                       life_vars>>

NextDup ==
    \/ \E m \in DupNew : UpdateDevlinkPort(m)
    \/ \E m \in DupGone : DupDeleteDevlinkPort(m)
    \/ \E i \in DupIfIndexes, n \in NetdevNames : UdevMove(i, n)

SpecDup == InitDup /\ [][NextDup]_vars

\* C31 (MAC+VF key uniqueness): no two live PciVf records whose pf is the
\* same PF have the same VF number.
C31_MacVfKeyUnique ==
    \A a, b \in Live(port_table) :
        (/\ a # b
         /\ Nodes[a].flavour = DEVLINK_PORT_FLAVOUR_PCI_VF
         /\ Nodes[b].flavour = DEVLINK_PORT_FLAVOUR_PCI_VF
         /\ Nodes[a].pf = Nodes[b].pf) =>
            Nodes[a].number # Nodes[b].number

\* The live PciVf records of number vf_num whose PF is live with MAC mac.
MacVfRecords(T, mac, vf_num) ==
    {a \in Live(T) : /\ T.nodes[a].flavour = DEVLINK_PORT_FLAVOUR_PCI_VF
                     /\ T.nodes[a].number = vf_num
                     /\ T.nodes[a].pf \in Live(T)
                     /\ T.nodes[T.nodes[a].pf].mac = mac}

\* C32 (duplicate key resolution): when the VFs of two PFs with equal MAC
\* share a VF number, lookup_pf_mac_vf(mac, vf_num) returns the one that was
\* updated last: after an update_entry that creates one of them or gives it
\* a name, the look-up returns that record.
C32_MostRecentWins ==
    \A m \in DupNew, reuse \in ReuseChoices(port_table),
       freed \in DupFreedReads(port_table) :
        LET T == port_table_update_entry(
                     port_table, m.bus_dev, m.netdev_ifindex, m.netdev_name,
                     m.number, m.pci_pf_number, m.pci_vf_number, m.flavour,
                     m.eth_addr, PORT_NODE_SOURCE_RUNTIME, reuse)
            pn == port_table_update_entry_pn(
                      port_table, m.bus_dev, m.netdev_ifindex, m.number,
                      m.pci_pf_number, m.pci_vf_number, m.flavour, reuse)
        IN  (/\ m.flavour = DEVLINK_PORT_FLAVOUR_PCI_VF
             /\ pn # NULL
             /\ ~T.nomem
             /\ \E P \in PfRecords(T, m) : T.nodes[pn].pf = P
             /\ T.nodes[pn].number = m.pci_vf_number
             /\ \E a, b \in MacVfRecords(T, MacA, m.pci_vf_number) :
                    T.nodes[a].pf # T.nodes[b].pf) =>
                port_table_lookup_pf_mac_vf(T, MacA, m.pci_vf_number, freed)
                = pn

\* C33 (rename-expected lifecycle): no devlink message turns the
\* rename-expected predicate of a record false, neither a devlink message
\* nor a uevent move turns it from false to true, and a record created from
\* the dump has it false.
C33_RenameExpectedLifecycle ==
    /\ \A m \in NewPorts(TableDevs, TableVfs),
          sysfs \in SysfsStates, reuse \in ReuseChoices(port_table),
          source \in {PORT_NODE_SOURCE_DUMP, PORT_NODE_SOURCE_RUNTIME} :
           LET T == port_table_update_devlink_port(port_table, m, source,
                                                   sysfs, reuse)
           IN  /\ \A a \in Live(port_table) :
                      port_node_rename_expected(T.nodes[a])
                      = port_node_rename_expected(Nodes[a])
               /\ \A a \in Live(T) \ Live(port_table) :
                      port_node_rename_expected(T.nodes[a])
                      = (source = PORT_NODE_SOURCE_RUNTIME)
    /\ \A i \in IfIndexes, n \in NetdevNames :
           LET T == udev_monitor_run(port_table,
                                     <<[action |-> "move",
                                        ifindex_str |-> decimal(i),
                                        sysname |-> n]>>).T
           IN  \A a \in Live(port_table) :
                   port_node_rename_expected(T.nodes[a]) =>
                       port_node_rename_expected(Nodes[a])

\* Uevents of the kinds the udev loop passes over: an action other than
\* move, no ifindex attribute, an ifindex that is not a decimal number, and
\* an ifindex no record of T has.
IgnoredUevents(T) ==
    {[action |-> a, ifindex_str |-> decimal(i), sysname |-> n] :
        a \in {"add", "remove", "change"}, i \in IfIndexes,
        n \in NetdevNames}
    \cup {[action |-> "move", ifindex_str |-> str, sysname |-> n] :
             str \in {NoAttr, <<"a", "b", "c">>, <<"1", "2", "x">>,
                      <<"1", "1", "x">>, <<"1", "0", " ">>},
             n \in NetdevNames}
    \cup {[action |-> "move", ifindex_str |-> decimal(i), sysname |-> n] :
             i \in {j \in IfIndexes \cup {12} :
                       port_table_lookup_ifindex(T, j) = NULL},
             n \in NetdevNames}

\* C34 (ignored uevents): a run() that finds no devlink message and only
\* uevents of another action than move leaves the table as it was; in any
\* table a uevent that is not a move, lacks the ifindex, has a malformed
\* ifindex or one no record has changes nothing and does not set changed;
\* and a move for a known ifindex changes the netdev_name and the renamed
\* flag of that record and nothing else.
C34_IgnoredUevents ==
    /\ [][(/\ ret'.op = "run"
           /\ devlink_monitor_sock = <<>>
           /\ udev_monitor # <<>>
           /\ \A k \in 1..Len(udev_monitor) :
                  udev_monitor[k].action # "move") =>
             port_table' = port_table]_vars
    /\ [](/\ \A dev \in IgnoredUevents(port_table) :
                 udev_monitor_run(port_table, <<dev>>)
                 = [T |-> port_table, changed |-> FALSE]
          /\ \A i \in IfIndexes, n \in NetdevNames :
                 LET pn == port_table_lookup_ifindex(port_table, i)
                 IN  pn # NULL =>
                         udev_monitor_run(
                             port_table,
                             <<[action |-> "move", ifindex_str |-> decimal(i),
                                sysname |-> n]>>)
                         = [T |-> [port_table EXCEPT
                                      !.nodes[pn].netdev_name = n,
                                      !.nodes[pn].netdev_renamed = TRUE],
                            changed |-> TRUE])

\* A uevent of another action than move is pending for the ifindex of a
\* record of the table.
C34_Witness ==
    /\ udev_monitor # <<>>
    /\ Head(udev_monitor).action # "move"
    /\ port_table_lookup_ifindex(
           port_table, strtol(Head(udev_monitor).ifindex_str).value) # NULL

\* C35 (drain order): a run() applies the pending devlink messages in
\* arrival order, then the pending uevents, and returns with both sockets
\* empty: the table it leaves is the one the uevents make of the table the
\* devlink messages make.
C35_DrainOrder ==
    [][ret'.op = "run" =>
          /\ devlink_monitor_sock' = <<>>
          /\ udev_monitor' = <<>>
          /\ \E sysfs \in SysfsStates, reuse \in BOOLEAN,
                freed \in FreedReads(DrainReads) :
                 port_table'
                 = udev_monitor_run(
                       devlink_monitor_run(port_table, devlink_monitor_sock,
                                           sysfs, reuse, freed).T,
                       udev_monitor).T]_vars

\* ------------------------------------------------- the port decoder
\* nl_dl_parse_port_function on the DEVLINK_PORT_FUNCTION_ATTR_HW_ADDR
\* attribute hw_addr (its bytes, NoHwAddr when the attribute is absent):
\* whether the message parses, and the eth_addr the port then carries.
\* port_fn is the eth_addr the caller's struct held before the call, which
\* no caller initialises.
NoHwAddr == <<>>
EthAddrSize == 6
IbAddrSize == 20
IbAddr == [i \in 1..IbAddrSize |-> IF i = 1 THEN 128 ELSE i]

nl_dl_parse_port_function(hw_addr, port_fn) ==
    IF hw_addr # NoHwAddr
    THEN IF Len(hw_addr) = EthAddrSize
         THEN [parsed |-> TRUE, eth_addr |-> hw_addr]
         ELSE IF Len(hw_addr) = IbAddrSize
         THEN [parsed |-> TRUE, eth_addr |-> port_fn]
         ELSE [parsed |-> FALSE, eth_addr |-> port_fn]
    ELSE [parsed |-> TRUE, eth_addr |-> eth_addr_zero]

\* The hardware addresses a PF's function attribute can carry, and what the
\* struct of the caller can hold.
HwAddrs == {NoHwAddr, MacA, SubSeq(MacA, 1, 4), MacA \o <<0, 0>>, IbAddr}
StaleEthAddrs == {eth_addr_zero, MacB}

\* port_table_update_devlink_port on a message of the multicast group or of
\* the dump, from its attributes on: the table is touched only if the
\* decoder accepts the message.
update_from_message(T, port, hw_addr, port_fn, port_node_source, sysfs, reuse) ==
    IF nl_dl_parse_port_function(hw_addr, port_fn).parsed
    THEN port_table_update_devlink_port(
             T, [port EXCEPT !.eth_addr =
                    nl_dl_parse_port_function(hw_addr, port_fn).eth_addr],
             port_node_source, sysfs, reuse)
    ELSE T

\* C36 (function MAC length): a port message whose function hardware
\* address has another length than 6 bytes is rejected by the decoder, and
\* the table is not changed by it.
C36_HwAddrLength ==
    \A port \in PfPorts(TableDevs, IfIndexes, NetdevNames, {eth_addr_zero}),
       hw_addr \in HwAddrs, port_fn \in StaleEthAddrs,
       source \in {PORT_NODE_SOURCE_DUMP, PORT_NODE_SOURCE_RUNTIME},
       reuse \in ReuseChoices(port_table) :
        (hw_addr # NoHwAddr /\ Len(hw_addr) # EthAddrSize) =>
            /\ ~nl_dl_parse_port_function(hw_addr, port_fn).parsed
            /\ update_from_message(port_table, port, hw_addr, port_fn,
                                   source, NoSysfs, reuse) = port_table

\* C37 (lookup soundness): a record lookup_pf_mac_vf(M, V) returns is a
\* PciVf record of number V whose pf is a record of the table with MAC M.
C37_LookupSound ==
    \A mac \in PfMacs, vf_num \in VfNumbers,
       freed \in FreedReads(DanglingAddrs(port_table)) :
        LET pn == port_table_lookup_pf_mac_vf(port_table, mac, vf_num, freed)
        IN  pn # NULL =>
                /\ Nodes[pn].live
                /\ Nodes[pn].flavour = DEVLINK_PORT_FLAVOUR_PCI_VF
                /\ Nodes[pn].number = vf_num
                /\ Nodes[pn].pf \in Live(port_table)
                /\ Nodes[Nodes[pn].pf].mac = mac

\* C38 (bus/dev lookup exactness): a record lookup_phy_bus_dev(bus, dev,
\* flavour, number) returns was created for that bus and dev.
C38_BusDevExact ==
    \A bus_dev \in PhyDevs, number \in PfNumbers,
       flavour \in {DEVLINK_PORT_FLAVOUR_PHYSICAL,
                    DEVLINK_PORT_FLAVOUR_PCI_PF} :
        LET pn == port_table_lookup_phy_bus_dev(port_table, bus_dev, flavour,
                                                number)
        IN  pn # NULL => Nodes[pn].bus_dev = bus_dev

\* The VF of the provider as the decoder gives it when the message carries
\* no netdev name: with the ifindex of its netdev, and with no netdev at all.
NamelessVfs == {ProviderVf(11, dl_str_not_present),
                ProviderVf(UINT32_MAX, dl_str_not_present)}

\* C39 (no empty name): prepare(Add) does not report success with the name
\* "", neither after the drain of a PORT_NEW of a port without netdev name
\* nor on the table a dump with such a port leaves.
C39_NoEmptyName ==
    \A opts \in LportOptions, vf \in NamelessVfs,
       reuse \in ReuseChoices(port_table),
       freed \in FreedReads(DanglingAddrs(port_table)) :
        /\ LET r == vif_plug_representor_port_prepare(
                        port_table,
                        <<DevlinkMsg(DEVLINK_CMD_PORT_NEW, vf)>>, <<>>,
                        PLUG_OP_CREATE, opts, NoSysfs, reuse, freed)
           IN  r.value => (r.written /\ r.name # "")
        /\ LET r == vif_plug_representor_port_prepare(
                        dump_replies(port_table_create, <<ProviderPf, vf>>),
                        devlink_monitor_sock, udev_monitor,
                        PLUG_OP_CREATE, opts, NoSysfs, reuse, freed)
           IN  r.value => (r.written /\ r.name # "")

\* The ports of a flavour the table holds and the kernel has.
InTable(flavour) == \E a \in Live(port_table) : Nodes[a].flavour = flavour
InKernel(flavour) == \E p \in kernel : p.flavour = flavour

\* A run() has returned with the devlink socket drained and nothing has
\* happened since.
Drained ==
    /\ pc = "idle"
    /\ ret.op = "run"
    /\ devlink_monitor_sock = <<>>

\* C40 (no event missed across start-up): without error on the devlink
\* socket, whenever a run() has drained the socket, the table has no port
\* the kernel has not, and it has every port that the kernel has and had
\* not when init() began.
C40_NoEventMissed ==
    \A flavour \in {DEVLINK_PORT_FLAVOUR_PCI_PF,
                    DEVLINK_PORT_FLAVOUR_PCI_VF} :
        [](sk_err = 0) =>
            /\ [](Drained => (InTable(flavour) => InKernel(flavour)))
            /\ ~InKernel(flavour) =>
                   [](Drained => (InKernel(flavour) => InTable(flavour)))

====
